---- MODULE Spec2Model ----
(***************************************************************************)
(* The order/consultation/bonus/payout ledger engine of src/main.py        *)
(* (class Database) as a state machine.                                    *)
(*                                                                         *)
(* The store is PostgreSQL reached through an asyncpg pool (connect,       *)
(* lines 63-86).  Every Database method takes its own pooled connection    *)
(* with "async with self.pool.acquire()"; a method called from inside      *)
(* another one (log_activity, create_notification, get_bonus,              *)
(* update_user_balance, ...) therefore runs on a SECOND connection, in a   *)
(* session of its own: its statements commit on their own, they do not see *)
(* the caller's uncommitted rows, and they wait for row locks the caller's *)
(* open transaction holds.                                                 *)
(*                                                                         *)
(* Transactions run at READ COMMITTED (conn.transaction() with no          *)
(* isolation argument):                                                    *)
(*   - a SELECT reads the last committed rows;                             *)
(*   - an UPDATE takes the row's lock and keeps it until its transaction   *)
(*     ends; an UPDATE of a row locked by another session waits, and then  *)
(*     re-evaluates its own WHERE clause on the newly committed row;       *)
(*   - a statement that waits longer than command_timeout=60 s (line 78)   *)
(*     raises TimeoutError in the caller, which unwinds every enclosing    *)
(*     "async with conn.transaction()" with a ROLLBACK.                    *)
(* A row lock is modelled by the name of the process whose open            *)
(* transaction holds it ("free" when none does).  The writes of an open    *)
(* transaction are applied to the committed tables by its commit action:   *)
(* the row is locked from the UPDATE to the commit, so no other session    *)
(* can change it in between.                                               *)
(***************************************************************************)
EXTENDS Integers, Sequences, FiniteSets, Bags, TLC

\* ------------------------------------------------------------------ bounds

\* Calls the two concurrent units of work start in one behaviour.
MaxCalls == 2

\* ------------------------------------------------------- program constants

\* default_settings: ('min_payout', '2000', ...), as digits of the TEXT column.
DefaultMinPayoutText == <<2, 0, 0, 0>>
\* "... WHERE key = 'min_payout'") or 2000
MinPayoutFallback == 2000
\* default_settings: ('consultation_price', '450', ...)
DefaultConsultationPriceText == <<4, 5, 0>>
\* "... WHERE key = 'consultation_price'") or 450
ConsultationPriceFallback == 450
\* default_settings: ('consultation_duration', '45', ...)
DefaultConsultationDurationText == <<4, 5>>
\* consultations.duration INTEGER DEFAULT 45
ColumnDefaultDuration == 45
\* default_settings: ('referral_percentage', '10', ...), ('referral_bonus', '400', ...)
DefaultReferralPercentageText == <<1, 0>>
DefaultReferralBonusText == <<4, 0, 0>>
\* if active_count >= 2: return None
MaxActiveBonuses == 2

\* ------------------------------------------------------------ input sets

\* Two handlers running concurrently on the event loop (aiogram starts one
\* task per update; every await of the store is a suspension point).  The
\* tasks are anonymous: a call runs as "p1" when that one is free, else as "p2".
Procs == {"p1", "p2"}

UserIds == {1, 2}

\* Ids the users sequence can hand out in one behaviour.
NewUserIds == 3..(MaxCalls + 2)

AllUserIds == UserIds \cup NewUserIds

\* Signed amounts handed to update_user_balance.
BalanceDeltas == {-3000, 1000}

\* Amounts typed into the payout form / handed to create_payout_request.
PayoutAmounts == {1000, 2000, 3000}

\* Balances the users table may hold when the pool connects.
StoredBalances == {0, 2000}

\* Values an admin may write into system_settings.min_payout.
MinPayoutTexts == {<<0>>, <<1, 0, 0, 0>>}

PayoutIds == {1, 2}

SlotIds == {1, 2}

\* consultation_number: "CONS" + the day + 4 random hex digits of uuid4();
\* here the numbers two bookings of one day can draw.
ConsultationNumbers == {1, 2}

\* What an admin may write into consultation_price and consultation_duration.
BookingSettings == {<<"consultation_price", <<0>>>>, <<"consultation_duration", <<6, 0>>>>}

\* Ids the consultations sequence can hand out in one behaviour.
ConsultationIds == 1..(MaxCalls + 1)

\* The bonuses initialize_default_data inserts first (positions 1..4).
BonusIds == {1, 2, 3, 4}

\* Days the clock moves on in one behaviour.
MaxDays == 1

\* Starts of the bot against one database in one behaviour.
MaxStarts == 2

\* Calls of confirm_receipt on consultation receipts that run at the same
\* time, each in an asyncio task of its own.
MaxTasks == 3

PoolTasks == 1..MaxTasks

\* Ids the bonuses sequence can hand out in one behaviour.
CatalogIds == 1..(MaxStarts * Cardinality(BonusIds))

\* Bonus ids a user may send to activate_bonus: 0 names no bonus.
BonusInputs == {0, 1, 2, 3}

\* Ids the user_bonuses sequence can hand out in one behaviour.
UserBonusIds == 1..(MaxCalls + 1)

\* Receipts users have uploaded, and the orders they pay for.
ReceiptIds == {1, 2}

OrderIds == {1, 2}

\* orders.total_stages DEFAULT 9; stage numbers run from 1 to it.
DefaultTotalStages == 9

StageNumbers == 1..DefaultTotalStages

StageKeys == OrderIds \X StageNumbers

\* Ids the order_status_history sequence can hand out in one behaviour.
HistoryIds == 1..(MaxCalls + 1)

\* The statuses handed to update_order_status.
OrderStatuses == {"new", "active", "completed", "cancelled"}

\* What an admin may write into referral_bonus and referral_percentage.
ReferralSettings == {<<"referral_bonus", <<0>>>>, <<"referral_percentage", <<2, 0>>>>}

\* ------------------------------------------------------------ pure helpers

\* value::integer of a TEXT column holding decimal digits.
RECURSIVE IntegerCast(_)
IntegerCast(txt) ==
    IF txt = <<>> THEN 0
    ELSE 10 * IntegerCast(SubSeq(txt, 1, Len(txt) - 1)) + txt[Len(txt)]

\* Python's "x or d": d when x is None (no row) or falsy (0).
OrDefault(x, d) == IF x = 0 THEN d ELSE x

RECURSIVE SumAmounts(_)
SumAmounts(S) ==
    IF S = {} THEN 0
    ELSE LET r == CHOOSE x \in S : TRUE
         IN  r.amount + SumAmounts(S \ {r})

\* ------------------------------------------------------------------ state

VARIABLES
    users,          \* users table: id -> row; telegram_id 0 = no such row
    nextUserId,     \* users_id_seq
    settings,       \* system_settings: key -> TEXT value (digits)
    payouts,        \* payouts table: id -> row; status "absent" = no such row
    nextPayoutId,   \* payouts_id_seq
    slots,          \* consultation_slots table: id -> [is_available, booked_by]
    consultations,  \* consultations table: id -> row; status "absent" = no such row
    nextConsultationId, \* consultations_id_seq
    user_bonuses,   \* user_bonuses table: id -> row; status "absent" = no such row
    receipts,       \* receipts table: id -> row; exists FALSE = no such row
    orders,         \* orders table: id -> row; user 0 = no such row
    nextOrderId,    \* orders_id_seq
    order_stages,   \* order_stages table: <<order, stage_number>> -> [exists, completed]
    order_status_history, \* order_status_history table: id -> row; order 0 = no such row
    nextHistoryId,  \* order_status_history_id_seq
    user_settings,  \* user_settings table: user -> [exists, order_notifications]
    nextUserBonusId, \* user_bonuses_id_seq
    rowLock,        \* row locks: <<table, id>> -> the process whose open transaction holds it
    notifications,  \* notifications table, as the bag of <<type, user, ref>>
    activity_log,   \* activity_log table, as the set of <<type, user, ref>>
    proc,           \* each unit of work: the call it runs, its position, its locals
    callNo,         \* calls started so far
    done,           \* the calls that have returned, with what they returned
    stored,         \* the tables as they were when the pool connected
    bonuses,        \* bonuses table (the catalog): id -> row; position 0 = no such row
    nextBonusId,    \* bonuses_id_seq
    today,          \* datetime.now().date(), as a day number
    delivered,      \* the reminders bot.send_message has delivered, as the bag
                    \* of the consultations they are about
    task            \* each concurrent confirm_receipt: the pool.acquire and
                    \* pool.release steps of its call chain it has taken

vars == <<users, nextUserId, settings, payouts, nextPayoutId, slots, consultations,
          nextConsultationId, user_bonuses, nextUserBonusId, receipts, orders, nextOrderId,
          order_stages, order_status_history, nextHistoryId, user_settings, rowLock,
          notifications, activity_log, proc, callNo, done, stored, bonuses, nextBonusId,
          today, delivered, task>>

tables == <<users, payouts, slots, consultations, user_bonuses, receipts, orders,
            order_stages, order_status_history, user_settings, bonuses>>

sequences == <<nextPayoutId, nextConsultationId, nextUserBonusId, nextOrderId,
               nextHistoryId, nextUserId, nextBonusId>>

NoPayout == [status |-> "absent", user |-> 0, amount |-> 0, by |-> 0, reason |-> ""]

FreeSlot == [exists |-> TRUE, is_available |-> TRUE, booked_by |-> 0]

NoSlot == [exists |-> FALSE, is_available |-> FALSE, booked_by |-> 0]

NoConsultation ==
    [status |-> "absent", user |-> 0, slot |-> 0, price |-> 0, duration |-> 0,
     number |-> 0, payment_confirmed |-> FALSE, manager |-> 0,
     date |-> 0, reminder_sent |-> FALSE]

\* slot_date of a slot: the slots lie on day 1, at different times.
SlotDate(s) == 1

NoUserBonus ==
    [status |-> "absent", user |-> 0, bonus |-> 0, total_required |-> 0,
     reward_paid |-> FALSE]

NoBonus == [position |-> 0]

\* The catalog one run of initialize_default_data leaves in an empty table.
SeededOnce == [i \in CatalogIds |-> IF i \in BonusIds THEN [position |-> i] ELSE NoBonus]

NoUser ==
    [balance |-> 0, total_earned |-> 0, pending_earnings |-> 0, referrer_id |-> 0,
     telegram_id |-> 0, referral_code |-> <<>>]

\* A Telegram account id, written so that it differs from the users id.
TelegramId(u) == 10 * u

\* A referral code, or the argument of /start, is a sequence of chunks of
\* text: <<"REF", n>> stands for "REF" + telegram id n + 6 hex digits, and
\* <<"ref_", 0>>, <<"start", 0>> for those literal texts.
\* referral_code = f"REF{telegram_id}{uuid.uuid4().hex[:6].upper()}"
NewReferralCode(tg) == << <<"REF", tg>> >>

ReferralCode(u) == NewReferralCode(TelegramId(u))

\* The row create_user has given user u, with the money columns of row.
Registered(u, row) ==
    [balance |-> row.balance, total_earned |-> row.total_earned,
     pending_earnings |-> row.pending_earnings, referrer_id |-> row.referrer_id,
     telegram_id |-> TelegramId(u), referral_code |-> ReferralCode(u)]

NoUserSettings ==
    [exists |-> FALSE, order_notifications |-> FALSE, consultation_reminders |-> FALSE]

NoOrder ==
    [user |-> 0, paid_amount |-> 0, status |-> "", current_stage |-> 0,
     total_stages |-> 0, progress_percent |-> 0, completed_at |-> 0]

\* INSERT INTO orders (..., user_id, ...): the other columns take their
\* defaults (paid_amount 0, current_stage 1, total_stages 9,
\* progress_percent 0, status 'new', completed_at NULL, here 0).
NewOrder(u) ==
    [user |-> u, paid_amount |-> 0, status |-> "new", current_stage |-> 1,
     total_stages |-> DefaultTotalStages, progress_percent |-> 0, completed_at |-> 0]

NoStage == [exists |-> FALSE, completed |-> FALSE]

NoHistory == [order |-> 0, status |-> "", changed_by |-> 0, notes |-> ""]

\* INSERT INTO user_settings (user_id): order_notifications DEFAULT TRUE.
DefaultUserSettings ==
    [exists |-> TRUE, order_notifications |-> TRUE, consultation_reminders |-> TRUE]

NoReceipt ==
    [exists |-> FALSE, confirmed |-> FALSE, user |-> 0, amount |-> 0,
     order |-> 0, consultation |-> 0, confirmed_by |-> 0]

NoSnap == [balance |-> 0, earned |-> 0, pending |-> 0, min |-> <<>>,
           status |-> "absent", reason |-> "", nextId |-> 0, logged |-> 0,
           active |-> 0, settings |-> <<>>]

IdleProc ==
    [op |-> "idle", pc |-> "idle", conc |-> FALSE,
     user |-> 0, amount |-> 0, id |-> 0, admin |-> 0, approve |-> FALSE,
     reason |-> "", text |-> <<>>,
     row |-> NoPayout, res |-> "none", ret |-> <<>>, tx |-> <<>>,
     ntype |-> "", nuser |-> 0, ltype |-> "", luser |-> 0, ref |-> 0,
     pre |-> NoSnap, was |-> {}, cons |-> 0, stage |-> 0,
     seen |-> <<>>, status |-> "", at |-> 0, number |-> 0, completed |-> FALSE,
     count |-> 0, total |-> 0, tg |-> 0, code |-> <<>>, referrer |-> 0,
     batch |-> {}, selected |-> {}, tried |-> <<>>, failed |-> {}]

LockKeys ==
    ({"users"} \X AllUserIds) \cup ({"payouts"} \X PayoutIds)
    \cup ({"slots"} \X SlotIds) \cup ({"user_bonuses"} \X UserBonusIds)
    \cup ({"consultations"} \X ConsultationIds)
    \cup ({"receipts"} \X ReceiptIds) \cup ({"orders"} \X OrderIds)
    \cup ({"order_stages"} \X StageKeys)

\* SELECT COUNT(*) FROM user_bonuses WHERE user_id = $1 AND status = 'active'
ActiveCount(u) ==
    Cardinality({k \in UserBonusIds :
        user_bonuses[k].user = u /\ user_bonuses[k].status = "active"})

\* What a call could see of a user's row, of a payout and of the settings
\* when it was made.
Snapshot(u, k) ==
    [balance |-> IF u \in UserIds THEN users[u].balance ELSE 0,
     earned |-> IF u \in UserIds THEN users[u].total_earned ELSE 0,
     pending |-> IF u \in UserIds THEN users[u].pending_earnings ELSE 0,
     min |-> settings["min_payout"],
     status |-> IF k \in PayoutIds THEN payouts[k].status ELSE "absent",
     reason |-> IF k \in PayoutIds THEN payouts[k].reason ELSE "",
     nextId |-> nextPayoutId,
     logged |-> Cardinality(activity_log),
     active |-> ActiveCount(u),
     settings |-> settings]

\* The tables a confirmation reads or writes, as they are.
TablesSeen ==
    [users |-> users, orders |-> orders, consultations |-> consultations,
     notifications |-> notifications, order_stages |-> order_stages,
     order_status_history |-> order_status_history]

Busy(p) == proc[p].op # "idle"

\* A call being started as p: marked concurrent when another call is in
\* flight (the call in flight is marked too).
Begin(p, fields) ==
    /\ ~Busy(p)
    /\ p = "p1" \/ Busy("p1")
    /\ callNo < MaxCalls
    /\ callNo' = callNo + 1
    /\ LET other == \E q \in Procs \ {p} : Busy(q)
       IN  proc' = [q \in Procs |->
                      IF q = p
                      THEN [fields EXCEPT !.conc = other]
                      ELSE IF Busy(q) THEN [proc[q] EXCEPT !.conc = TRUE]
                      ELSE proc[q]]

Goto(p, rec) == proc' = [proc EXCEPT ![p] = rec]

\* The statuses of the rows user_bonuses holds for one user and one bonus.
Held(u, b) ==
    {user_bonuses[k].status : k \in {i \in UserBonusIds :
         /\ user_bonuses[i].status # "absent"
         /\ user_bonuses[i].user = u /\ user_bonuses[i].bonus = b}}

\* What confirm_consultation_payment finds under an id.
PaymentState(k) ==
    IF k \notin ConsultationIds \/ consultations[k].status = "absent" THEN "absent"
    ELSE IF consultations[k].payment_confirmed THEN "confirmed" ELSE "unconfirmed"

\* What a booking finds under a slot id.
SlotState(k) ==
    IF k \notin SlotIds \/ ~slots[k].exists THEN "absent"
    ELSE IF slots[k].is_available THEN "available" ELSE "booked"

\* What confirm_receipt finds under an id.
ReceiptState(k) ==
    IF k \notin ReceiptIds \/ ~receipts[k].exists THEN "absent"
    ELSE IF receipts[k].confirmed THEN "confirmed" ELSE "unconfirmed"

\* The state of the row a call is about.
TargetState(pr) ==
    CASE pr.op = "activate_bonus" -> Held(pr.user, pr.amount)
      [] pr.op \in {"complete_bonus", "approve_bonus", "reject_bonus"} ->
             {user_bonuses[pr.id].status}
      [] pr.op \in {"book_consultation", "add_consultation_slot"} -> {SlotState(pr.id)}
      [] pr.op = "confirm_consultation_payment" -> {PaymentState(pr.id)}
      [] pr.op = "confirm_receipt" -> {ReceiptState(pr.id)}
      [] pr.op \in {"update_order_status", "update_order_stage"} -> {orders[pr.id].status}
      [] OTHER -> {}

\* What returns to the caller of a finished call, with the rows as they are
\* then.
CallRecord(p) ==
    LET pr == proc[p]
    IN  [p |-> p, op |-> pr.op, conc |-> pr.conc, user |-> pr.user,
         amount |-> pr.amount, id |-> pr.id, admin |-> pr.admin,
         approve |-> pr.approve, reason |-> pr.reason,
         text |-> pr.text, res |-> pr.res, pre |-> pr.pre,
         post |-> Snapshot(pr.user, pr.id), was |-> pr.was,
         now |-> TargetState(pr), cons |-> pr.cons,
         seen |-> pr.seen, left |-> IF pr.seen = <<>> THEN <<>> ELSE TablesSeen,
         status |-> pr.status, number |-> pr.number, completed |-> pr.completed,
         tg |-> pr.tg, code |-> pr.code, referrer |-> pr.referrer,
         at |-> pr.at, selected |-> pr.selected, tried |-> pr.tried,
         failed |-> pr.failed]

\* ------------------------------------- transactions, connections, locks

\* The row whose lock the next statement of p needs (<<"none", 0>>: none).
Wants(p) ==
    LET pr == proc[p]
    IN  CASE pr.pc \in {"uub_update", "cpr_reserve"} -> <<"users", pr.user>>
          [] pr.pc = "log_update" /\ pr.luser # 0 -> <<"users", pr.luser>>
          [] pr.pc = "pp_update_payout" -> <<"payouts", pr.id>>
          [] pr.pc = "pp_update_user" -> <<"users", pr.row.user>>
          [] pr.pc = "bc_update" -> <<"slots", pr.id>>
          [] pr.pc \in {"ccp_update", "scr_flag"} -> <<"consultations", pr.cons>>
          [] pr.pc \in {"cb_update", "apb_update", "rb_update"} -> <<"user_bonuses", pr.id>>
          [] pr.pc \in {"cr_update", "rr_delete"} -> <<"receipts", pr.id>>
          [] pr.pc \in {"uos_update", "usg_update_order"} -> <<"orders", pr.id>>
          [] pr.pc = "usg_update_stage" -> <<"order_stages", <<pr.id, pr.number>>>>
          [] pr.pc = "cr_update_order" -> <<"orders", pr.row.order>>
          [] OTHER -> <<"none", 0>>

Holder(p) == IF Wants(p) \in LockKeys THEN rowLock[Wants(p)] ELSE "free"

\* p waits for a row its own open transaction has locked through another
\* connection: the wait cannot end before command_timeout.
Stuck(p) == Holder(p) = p

\* A write of an open transaction: the row as the UPDATE or INSERT leaves it.
Write(tbl, id, row) == [tbl |-> tbl, id |-> id, row |-> row]

Written(frame, tbl, id) == \E i \in 1..Len(frame) : frame[i].tbl = tbl /\ frame[i].id = id

LastWrite(frame, tbl, id) ==
    LET i == CHOOSE j \in 1..Len(frame) :
                 /\ frame[j].tbl = tbl /\ frame[j].id = id
                 /\ \A m \in (j + 1)..Len(frame) : ~(frame[m].tbl = tbl /\ frame[m].id = id)
    IN  frame[i].row

Applied(table, tbl, frame) ==
    [id \in DOMAIN table |->
        IF Written(frame, tbl, id) THEN LastWrite(frame, tbl, id) ELSE table[id]]

\* conn.transaction().__aexit__ without an exception: COMMIT.  The writes of
\* the innermost open transaction of p reach the tables and its row locks
\* are released; the caller goes on.
Commit(p) ==
    LET pr == proc[p]
        frame == Head(pr.tx)
    IN  /\ pr.pc = "commit"
        /\ users' = Applied(users, "users", frame)
        /\ payouts' = Applied(payouts, "payouts", frame)
        /\ slots' = Applied(slots, "slots", frame)
        /\ consultations' = Applied(consultations, "consultations", frame)
        /\ user_bonuses' = Applied(user_bonuses, "user_bonuses", frame)
        /\ receipts' = Applied(receipts, "receipts", frame)
        /\ orders' = Applied(orders, "orders", frame)
        /\ order_stages' = Applied(order_stages, "order_stages", frame)
        /\ order_status_history' =
               Applied(order_status_history, "order_status_history", frame)
        /\ user_settings' = user_settings
        /\ bonuses' = bonuses
        /\ rowLock' = [k \in LockKeys |->
                          IF rowLock[k] = p /\ Written(frame, k[1], k[2])
                          THEN "free" ELSE rowLock[k]]
        /\ Goto(p, [pr EXCEPT !.pc = Head(pr.ret), !.ret = Tail(pr.ret),
                              !.tx = Tail(pr.tx)])
        /\ UNCHANGED <<settings, sequences, notifications, activity_log, callNo, done, stored, task, today, delivered>>

\* command_timeout (line 78) ends a statement that waits for a row lock held
\* by p's own open transaction, or by a process that itself waits so:
\* TimeoutError unwinds every open transaction of p with a ROLLBACK.
LockTimeout(p) ==
    /\ Holder(p) \in Procs
    /\ Stuck(p) \/ Stuck(Holder(p))
    /\ rowLock' = [k \in LockKeys |-> IF rowLock[k] = p THEN "free" ELSE rowLock[k]]
    /\ Goto(p, [proc[p] EXCEPT !.pc = "return", !.ret = <<>>, !.tx = <<>>,
                               !.res = "error"])
    /\ UNCHANGED <<tables, settings, sequences, notifications, activity_log, callNo, done, stored, task, today, delivered>>

\* create_notification: one INSERT on a connection of its own.
CreateNotification(p) ==
    LET pr == proc[p]
    IN  /\ pr.pc = "notify"
        /\ notifications' = notifications (+) SetToBag({<<pr.ntype, pr.nuser, pr.ref>>})
        /\ Goto(p, [pr EXCEPT !.pc = Head(pr.ret), !.ret = Tail(pr.ret)])
        /\ UNCHANGED <<tables, settings, sequences, rowLock, activity_log, callNo, done, stored, task, today, delivered>>

\* log_activity, first statement: INSERT INTO activity_log, on a connection
\* of its own (committed at once).
LogInsert(p) ==
    LET pr == proc[p]
    IN  /\ pr.pc = "log_insert"
        /\ activity_log' = activity_log \cup {<<pr.ltype, pr.luser, pr.ref>>}
        /\ Goto(p, [pr EXCEPT !.pc = "log_update"])
        /\ UNCHANGED <<tables, settings, sequences, rowLock, notifications, callNo, done, stored, task, today, delivered>>

\* log_activity, second statement: UPDATE users SET last_active WHERE id =
\* user_id, on that same second connection.  It needs the lock of the users
\* row; the lock is taken and released within the statement.
LogUpdate(p) ==
    LET pr == proc[p]
    IN  /\ pr.pc = "log_update"
        /\ Holder(p) = "free"
        /\ Goto(p, [pr EXCEPT !.pc = Head(pr.ret), !.ret = Tail(pr.ret)])
        /\ UNCHANGED <<tables, settings, sequences, rowLock, notifications,
                       activity_log, callNo, done, stored, task, today, delivered>>

\* The call returns (or raises) to its caller.
Return(p) ==
    /\ proc[p].pc = "return"
    /\ done' = done \cup {CallRecord(p)}
    /\ Goto(p, IdleProc)
    /\ UNCHANGED <<tables, settings, sequences, rowLock, notifications,
                   activity_log, callNo, stored, task, today, delivered>>

\* ---------------------------------------------------- update_user_balance

StartUpdateUserBalance(p, u, amt) ==
    /\ Begin(p, [IdleProc EXCEPT !.op = "update_user_balance", !.pc = "uub_update",
                                 !.user = u, !.amount = amt, !.ret = <<"return">>,
                                 !.pre = Snapshot(u, 0)])
    /\ UNCHANGED <<tables, settings, sequences, rowLock, notifications,
                   activity_log, done, stored, task, today, delivered>>

\* UPDATE users SET balance = balance + $1, total_earned = total_earned +
\* CASE WHEN $1 > 0 THEN $1 ELSE 0 END WHERE id = $2
BalanceUpdate(row, amt) ==
    [row EXCEPT !.balance = @ + amt,
                !.total_earned = @ + (IF amt > 0 THEN amt ELSE 0)]

\* BEGIN and the UPDATE, in a transaction of update_user_balance's own
\* connection; then log_activity(user_id, 'balance_update'), then COMMIT and
\* return True.
UubUpdate(p) ==
    LET pr == proc[p]
    IN  /\ pr.pc = "uub_update"
        /\ Holder(p) = "free"
        /\ rowLock' = [rowLock EXCEPT ![<<"users", pr.user>>] = p]
        /\ Goto(p, [pr EXCEPT
                 !.tx = <<<<Write("users", pr.user,
                                  BalanceUpdate(users[pr.user], pr.amount))>>>> \o @,
                 !.pc = "log_insert", !.ltype = "balance_update",
                 !.luser = pr.user, !.ref = pr.amount,
                 !.ret = <<"commit">> \o @,
                 !.res = IF pr.op = "update_user_balance" THEN "True" ELSE @])
        /\ UNCHANGED <<tables, settings, sequences, notifications, activity_log,
                       callNo, done, stored, task, today, delivered>>

\* -------------------------------------------------- create_payout_request

StartCreatePayoutRequest(p, u, amt) ==
    /\ nextPayoutId \in PayoutIds
    /\ Begin(p, [IdleProc EXCEPT
             !.op = "create_payout_request", !.user = u, !.amount = amt,
             !.pc = "cpr_select_balance",
             !.res = "None", !.pre = Snapshot(u, 0)])
    /\ UNCHANGED <<tables, settings, sequences, rowLock, notifications,
                   activity_log, done, stored, task, today, delivered>>

\* user = SELECT balance FROM users WHERE id = $1
\* if user['balance'] < amount: return None
CprSelectBalance(p) ==
    LET pr == proc[p]
    IN  /\ pr.pc = "cpr_select_balance"
        /\ Goto(p, [pr EXCEPT !.pc = IF users[pr.user].balance < pr.amount
                                     THEN "return" ELSE "cpr_select_min"])
        /\ UNCHANGED <<tables, settings, sequences, rowLock, notifications,
                       activity_log, callNo, done, stored, task, today, delivered>>

\* The minimum create_payout_request compares the amount with.
MinPayout == OrDefault(IntegerCast(settings["min_payout"]), MinPayoutFallback)

\* min_payout = (SELECT value::integer ... 'min_payout') or 2000
\* if amount < min_payout: return None
CprSelectMin(p) ==
    LET pr == proc[p]
    IN  /\ pr.pc = "cpr_select_min"
        /\ Goto(p, [pr EXCEPT !.pc = IF pr.amount < MinPayout
                                     THEN "return" ELSE "cpr_insert"])
        /\ UNCHANGED <<tables, settings, sequences, rowLock, notifications,
                       activity_log, callNo, done, stored, task, today, delivered>>

\* INSERT INTO payouts (...) RETURNING *: the row takes the sequence's next
\* id and stays uncommitted.
CprInsert(p) ==
    LET pr == proc[p]
        row == [status |-> "pending", user |-> pr.user, amount |-> pr.amount,
                by |-> 0, reason |-> ""]
    IN  /\ pr.pc = "cpr_insert"
        /\ nextPayoutId' = nextPayoutId + 1
        /\ Goto(p, [pr EXCEPT !.pc = "cpr_reserve", !.id = nextPayoutId,
                              !.tx = <<<<Write("payouts", nextPayoutId, row)>>>>])
        /\ UNCHANGED <<tables, settings, nextConsultationId, nextUserBonusId, nextOrderId, nextHistoryId, nextUserId, nextBonusId, rowLock,
                       notifications, activity_log, callNo, done, stored, task, today, delivered>>

\* UPDATE users SET balance = balance - $1, pending_earnings =
\* pending_earnings + $1 WHERE id = $2
Reserve(row, amt) ==
    [row EXCEPT !.balance = @ - amt, !.pending_earnings = @ + amt]

\* The reservation; then create_notification('new_payout', None, ...),
\* log_activity(user_id, 'payout_requested', ...), COMMIT, return the row.
CprReserve(p) ==
    LET pr == proc[p]
    IN  /\ pr.pc = "cpr_reserve"
        /\ Holder(p) = "free"
        /\ rowLock' = [rowLock EXCEPT ![<<"users", pr.user>>] = p]
        /\ Goto(p, [pr EXCEPT
                 !.tx = <<Head(@) \o <<Write("users", pr.user,
                                             Reserve(users[pr.user], pr.amount))>>>>,
                 !.pc = "notify", !.ntype = "new_payout", !.nuser = 0, !.ref = pr.id,
                 !.ltype = "payout_requested", !.luser = pr.user,
                 !.ret = <<"log_insert", "commit", "return">>,
                 !.res = "row"])
        /\ UNCHANGED <<tables, settings, sequences, notifications, activity_log,
                       callNo, done, stored, task, today, delivered>>

\* --------------------------------------------------------- process_payout

StartProcessPayout(p, k, admin, approve) ==
    /\ Begin(p, [IdleProc EXCEPT
             !.op = "process_payout", !.pc = "pp_select", !.id = k, !.admin = admin,
             !.approve = approve, !.reason = IF approve THEN "" ELSE "declined",
             !.user = payouts[k].user, !.amount = payouts[k].amount,
             !.res = "False", !.pre = Snapshot(payouts[k].user, k)])
    /\ UNCHANGED <<tables, settings, sequences, rowLock, notifications,
                   activity_log, done, stored, task, today, delivered>>

\* The SELECT without "AND status = 'pending'": any existing payout passes.
PpSelectAnyStatus(p) ==
    LET pr == proc[p]
    IN  /\ pr.pc = "pp_select"
        /\ Goto(p, IF payouts[pr.id].status # "absent"
                   THEN [pr EXCEPT !.pc = "pp_update_payout", !.row = payouts[pr.id]]
                   ELSE [pr EXCEPT !.pc = "return"])
        /\ UNCHANGED <<tables, settings, sequences, rowLock, notifications,
                       activity_log, callNo, done, stored, task, today, delivered>>

\* payout = SELECT * FROM payouts WHERE id = $1 AND status = 'pending'
\* if not payout: return False
PpSelect(p) ==
    LET pr == proc[p]
    IN  /\ pr.pc = "pp_select"
        /\ Goto(p, IF payouts[pr.id].status = "pending"
                   THEN [pr EXCEPT !.pc = "pp_update_payout", !.row = payouts[pr.id]]
                   ELSE [pr EXCEPT !.pc = "return"])
        /\ UNCHANGED <<tables, settings, sequences, rowLock, notifications,
                       activity_log, callNo, done, stored, task, today, delivered>>

\* UPDATE payouts SET status = 'completed' | 'rejected', processed_by = ...,
\* [rejection_reason = ...] WHERE id = $: the WHERE clause names the id only.
PayoutUpdate(row, approve, admin, reason) ==
    IF row.status = "absent" THEN row
    ELSE IF approve
         THEN [row EXCEPT !.status = "completed", !.by = admin]
         ELSE [row EXCEPT !.status = "rejected", !.by = admin, !.reason = reason]

PpUpdatePayout(p) ==
    LET pr == proc[p]
    IN  /\ pr.pc = "pp_update_payout"
        /\ Holder(p) = "free"
        /\ rowLock' = [rowLock EXCEPT ![<<"payouts", pr.id>>] = p]
        /\ Goto(p, [pr EXCEPT
                 !.tx = <<<<Write("payouts", pr.id,
                                  PayoutUpdate(payouts[pr.id], pr.approve, pr.admin,
                                               pr.reason))>>>>,
                 !.pc = "pp_update_user"])
        /\ UNCHANGED <<tables, settings, sequences, notifications, activity_log,
                       callNo, done, stored, task, today, delivered>>

\* approve: UPDATE users SET pending_earnings = pending_earnings - $1
\* reject:  UPDATE users SET balance = balance + $1,
\*                           pending_earnings = pending_earnings - $1
\* with $1 = payout['amount'] of the row the SELECT returned.
Release(row, approve, amt) ==
    IF approve
    THEN [row EXCEPT !.pending_earnings = @ - amt]
    ELSE [row EXCEPT !.balance = @ + amt, !.pending_earnings = @ - amt]

\* The users update; then create_notification('payout_approved' |
\* 'payout_rejected', payout['user_id'], ...), log_activity(admin_id, ...),
\* COMMIT, return True.
PpUpdateUser(p) ==
    LET pr == proc[p]
        u == pr.row.user
        kind == IF pr.approve THEN "payout_approved" ELSE "payout_rejected"
    IN  /\ pr.pc = "pp_update_user"
        /\ Holder(p) = "free"
        /\ rowLock' = [rowLock EXCEPT ![<<"users", u>>] = p]
        /\ Goto(p, [pr EXCEPT
                 !.tx = <<Head(@) \o <<Write("users", u,
                                             Release(users[u], pr.approve, pr.row.amount))>>>>,
                 !.pc = "notify", !.ntype = kind, !.nuser = u, !.ref = pr.id,
                 !.ltype = kind, !.luser = pr.admin,
                 !.ret = <<"log_insert", "commit", "return">>,
                 !.res = "True"])
        /\ UNCHANGED <<tables, settings, sequences, notifications, activity_log,
                       callNo, done, stored, task, today, delivered>>

\* -------------------------------------------------- update_system_setting

\* INSERT ... ON CONFLICT (key) DO UPDATE SET value = EXCLUDED.value, one
\* statement committed at once; the next line reads self.stats_cache, which
\* __init__ never creates: the call raises AttributeError after the write.
UpdateSystemSetting(p, key, text) ==
    /\ Begin(p, [IdleProc EXCEPT !.op = "update_system_setting", !.pc = "return",
                                 !.text = text, !.res = "error",
                                 !.pre = Snapshot(0, 0)])
    /\ settings' = [settings EXCEPT ![key] = text]
    /\ UNCHANGED <<tables, sequences, rowLock, notifications, activity_log, done, stored, task, today, delivered>>

\* ------------------------------------------------------ book_consultation

StartBookConsultation(p, u, s) ==
    /\ Begin(p, [IdleProc EXCEPT !.op = "book_consultation", !.pc = "bc_update",
                                 !.user = u, !.id = s, !.res = "None",
                                 !.pre = Snapshot(u, 0), !.was = {SlotState(s)}])
    /\ UNCHANGED <<tables, settings, sequences, rowLock, notifications,
                   activity_log, done, stored, task, today, delivered>>

\* The WHERE clause without "AND is_available = TRUE": any slot matches.
SlotMatchesAny(row) == TRUE

\* ... WHERE id = $2 AND is_available = TRUE
SlotMatches(row) == row.is_available

\* ... SET is_available = FALSE: the booking user is not recorded.
SlotUpdateUnowned(row, u) == [row EXCEPT !.is_available = FALSE]

\* ... SET is_available = FALSE, booked_by = $1
SlotUpdate(row, u) == [row EXCEPT !.is_available = FALSE, !.booked_by = u]

\* slot = UPDATE consultation_slots SET ... WHERE id = $2 AND is_available =
\* TRUE RETURNING *; if not slot: return None.  The statement waits while
\* another open transaction holds the row, and then evaluates its WHERE
\* clause on the row that transaction committed.
BcUpdate(p) ==
    LET pr == proc[p]
    IN  /\ pr.pc = "bc_update"
        /\ Holder(p) = "free"
        /\ IF SlotMatches(slots[pr.id])
           THEN /\ rowLock' = [rowLock EXCEPT ![<<"slots", pr.id>>] = p]
                /\ Goto(p, [pr EXCEPT
                         !.tx = <<<<Write("slots", pr.id,
                                          SlotUpdate(slots[pr.id], pr.user))>>>>,
                         !.pc = "bc_select_price"])
           ELSE /\ Goto(p, [pr EXCEPT !.pc = "return"])
                /\ UNCHANGED rowLock
        /\ UNCHANGED <<tables, settings, sequences, notifications, activity_log,
                       callNo, done, stored, task, today, delivered>>

\* The price book_consultation writes into the consultation.
ConsultationPrice ==
    OrDefault(IntegerCast(settings["consultation_price"]), ConsultationPriceFallback)

\* consultation_price = (SELECT value::integer ... 'consultation_price') or 450
BcSelectPrice(p) ==
    LET pr == proc[p]
    IN  /\ pr.pc = "bc_select_price"
        /\ Goto(p, [pr EXCEPT !.amount = ConsultationPrice, !.pc = "bc_insert"])
        /\ UNCHANGED <<tables, settings, sequences, rowLock, notifications,
                       activity_log, callNo, done, stored, task, today, delivered>>

\* Another open transaction has inserted a consultation with the number n
\* and has not committed: an INSERT of that number waits for it.
NumberInFlight(p, n) ==
    \E q \in Procs \ {p} : \E f \in 1..Len(proc[q].tx) :
        \E i \in 1..Len(proc[q].tx[f]) :
            LET w == proc[q].tx[f][i]
            IN  w.tbl = "consultations" /\ w.row.number = n

\* consultation_number VARCHAR(20) UNIQUE: a committed consultation has it.
NumberTaken(n) ==
    \E k \in ConsultationIds :
        consultations[k].status # "absent" /\ consultations[k].number = n

\* INSERT INTO consultations (consultation_number, user_id,
\* consultation_date, consultation_time, price) VALUES (...) RETURNING *: the
\* slot's date and time name the slot (UNIQUE(slot_date, slot_time)); the
\* duration is not in the column list and takes the column's default.  A
\* number that is taken raises UniqueViolationError, which rolls the
\* transaction back with the slot's update.
BcInsert(p) ==
    \E n \in ConsultationNumbers :
        LET pr == proc[p]
            row == [status |-> "pending", user |-> pr.user, slot |-> pr.id,
                    price |-> pr.amount, duration |-> ColumnDefaultDuration,
                    number |-> n, payment_confirmed |-> FALSE, manager |-> 0,
                    date |-> SlotDate(pr.id), reminder_sent |-> FALSE]
        IN  /\ pr.pc = "bc_insert"
            /\ ~NumberInFlight(p, n)
            /\ nextConsultationId \in ConsultationIds
            /\ nextConsultationId' = nextConsultationId + 1
            /\ IF NumberTaken(n)
               THEN /\ rowLock' = [k \in LockKeys |->
                                     IF rowLock[k] = p THEN "free" ELSE rowLock[k]]
                    /\ Goto(p, [pr EXCEPT !.pc = "return", !.tx = <<>>,
                                          !.res = "error"])
               ELSE /\ UNCHANGED rowLock
                    /\ Goto(p, [pr EXCEPT
                         !.tx = <<Head(@) \o <<Write("consultations",
                                                     nextConsultationId, row)>>>>,
                         !.cons = nextConsultationId,
                         !.ref = nextConsultationId, !.pc = "bc_get_user"])
            /\ UNCHANGED <<tables, settings, nextPayoutId, nextUserBonusId, nextOrderId, nextHistoryId, nextUserId, nextBonusId,
                           notifications, activity_log, callNo, done, stored, task, today, delivered>>

\* user = get_user_by_id(user_id); then create_notification('new_consultation',
\* None, ...), log_activity(user_id, 'consultation_booked', ...), COMMIT,
\* return the consultation.
BcGetUser(p) ==
    LET pr == proc[p]
    IN  /\ pr.pc = "bc_get_user"
        /\ Goto(p, [pr EXCEPT
                 !.pc = "notify", !.ntype = "new_consultation", !.nuser = 0,
                 !.ltype = "consultation_booked", !.luser = pr.user,
                 !.ret = <<"log_insert", "commit", "return">>,
                 !.res = "row"])
        /\ UNCHANGED <<tables, settings, sequences, rowLock, notifications,
                       activity_log, callNo, done, stored, task, today, delivered>>

\* -------------------------------------------------- add_consultation_slot

StartAddConsultationSlot(p, admin, d) ==
    /\ Begin(p, [IdleProc EXCEPT !.op = "add_consultation_slot", !.pc = "acs_insert",
                                 !.id = d, !.admin = admin, !.res = "True",
                                 !.pre = Snapshot(0, 0), !.was = {SlotState(d)}])
    /\ UNCHANGED <<tables, settings, sequences, rowLock, notifications,
                   activity_log, done, stored, task, today, delivered>>

\* ON CONFLICT (slot_date, slot_time) DO UPDATE: the slot is made new.
SlotReplace(row) == FreeSlot

\* INSERT INTO consultation_slots ... ON CONFLICT (slot_date, slot_time) DO
\* NOTHING: a new available slot, or the existing row as it is.
SlotInsert(row) == IF row.exists THEN row ELSE FreeSlot

\* INSERT INTO consultation_slots (slot_date, slot_time, created_by_admin)
\* VALUES (...) ON CONFLICT (slot_date, slot_time) DO NOTHING, committed at
\* once; then log_activity(admin_id, 'consultation_slot_added', ...), return
\* True.
AcsInsert(p) ==
    LET pr == proc[p]
    IN  /\ pr.pc = "acs_insert"
        /\ slots' = [slots EXCEPT ![pr.id] = SlotInsert(@)]
        /\ Goto(p, [pr EXCEPT !.pc = "log_insert",
                              !.ltype = "consultation_slot_added",
                              !.luser = pr.admin, !.ref = pr.id,
                              !.ret = <<"return">>])
        /\ UNCHANGED <<users, payouts, consultations, user_bonuses, receipts, orders,
                       order_stages, order_status_history, user_settings, bonuses, settings,
                       sequences, rowLock, notifications, activity_log, callNo,
                       done, stored, task, today, delivered>>

\* ---------------------------------------- cancel_consultation (chat handler)

\* state.finish() and two messages: the store is not touched.
CancelConsultation(p) ==
    /\ Begin(p, [IdleProc EXCEPT !.op = "cancel_consultation", !.pc = "return",
                                 !.pre = Snapshot(0, 0)])
    /\ UNCHANGED <<tables, settings, sequences, rowLock, notifications,
                   activity_log, done, stored, task, today, delivered>>

\* ------------------------------------------- confirm_consultation_payment

StartConfirmConsultationPayment(p, k, admin) ==
    /\ Begin(p, [IdleProc EXCEPT
             !.op = "confirm_consultation_payment", !.pc = "ccp_update",
             !.id = k, !.cons = k, !.admin = admin, !.res = "False",
             !.ret = <<"return">>,
             !.pre = Snapshot(0, 0), !.was = {PaymentState(k)},
             !.seen = TablesSeen])
    /\ UNCHANGED <<tables, settings, sequences, rowLock, notifications,
                   activity_log, done, stored, task, today, delivered>>

\* The WHERE clause without "AND payment_confirmed = FALSE".
PaymentMatchesAny(row) == row.status # "absent"

\* ... WHERE id = $2 AND payment_confirmed = FALSE
PaymentMatches(row) == row.status # "absent" /\ ~row.payment_confirmed

\* ... SET payment_confirmed = TRUE, status = 'confirmed', manager_id = $1
PaymentUpdate(row, admin) ==
    [row EXCEPT !.payment_confirmed = TRUE, !.status = "confirmed",
                !.manager = admin]

\* consultation = UPDATE consultations SET ... WHERE id = $2 AND
\* payment_confirmed = FALSE RETURNING *, in a transaction of the method's
\* own connection; if not consultation: return False.
CcpUpdate(p) ==
    LET pr == proc[p]
        row == consultations[pr.cons]
    IN  /\ pr.pc = "ccp_update"
        /\ Holder(p) = "free"
        /\ IF PaymentMatches(row)
           THEN /\ rowLock' = [rowLock EXCEPT ![<<"consultations", pr.cons>>] = p]
                /\ Goto(p, [pr EXCEPT
                         !.tx = <<<<Write("consultations", pr.cons,
                                          PaymentUpdate(row, pr.admin))>>>> \o @,
                         !.nuser = row.user,
                         !.pc = "ccp_get_admin"])
           ELSE /\ Goto(p, [pr EXCEPT !.pc = Head(pr.ret), !.ret = Tail(pr.ret)])
                /\ UNCHANGED rowLock
        /\ UNCHANGED <<tables, settings, sequences, notifications, activity_log,
                       callNo, done, stored, task, today, delivered>>

\* manager_username = get_admin_username(admin_id) or ...; then
\* create_notification('consultation_confirmed', consultation['user_id'],
\* ...), log_activity(admin_id, 'consultation_payment_confirmed', ...),
\* COMMIT, return True.
CcpGetAdmin(p) ==
    LET pr == proc[p]
    IN  /\ pr.pc = "ccp_get_admin"
        /\ Goto(p, [pr EXCEPT
                 !.pc = "notify", !.ntype = "consultation_confirmed",
                 !.ref = pr.cons, !.ltype = "consultation_payment_confirmed",
                 !.luser = pr.admin,
                 !.ret = <<"log_insert", "commit">> \o @,
                 !.res = IF pr.op = "confirm_consultation_payment" THEN "True" ELSE @])
        /\ UNCHANGED <<tables, settings, sequences, rowLock, notifications,
                       activity_log, callNo, done, stored, task, today, delivered>>

\* -------------------------------------------------------- confirm_receipt

ReferralBonusFallback == 400

ReferralPercentageFallback == 10

\* int(get_system_setting(key) or d): the value is TEXT, so only a missing
\* or empty value is falsy; '0' is not.
TextOr(txt, d) == IF txt = <<>> THEN d ELSE IntegerCast(txt)

\* int(receipt['amount'] * referral_percentage / 100), for amounts >= 0.
PercentageBonus(amount, percentage) == (amount * percentage) \div 100

StartConfirmReceipt(p, r, admin) ==
    /\ Begin(p, [IdleProc EXCEPT
             !.op = "confirm_receipt", !.pc = "cr_update",
             !.id = r, !.admin = admin, !.res = "False",
             !.pre = Snapshot(0, 0), !.was = {ReceiptState(r)},
             !.seen = TablesSeen])
    /\ UNCHANGED <<tables, settings, sequences, rowLock, notifications,
                   activity_log, done, stored, task, today, delivered>>

\* ... WHERE id = $2 AND confirmed = FALSE
ReceiptMatches(row) == row.exists /\ ~row.confirmed

\* ... SET confirmed = TRUE, confirmed_by = $1
ReceiptUpdate(row, admin) == [row EXCEPT !.confirmed = TRUE, !.confirmed_by = admin]

\* receipt = UPDATE receipts SET ... WHERE id = $2 AND confirmed = FALSE
\* RETURNING *, in the method's transaction; if not receipt: return False.
\* Then confirm_consultation_payment(receipt['consultation_id'], admin_id)
\* for a consultation receipt, the order's UPDATE for an order receipt.
CrUpdate(p) ==
    LET pr == proc[p]
        row == receipts[pr.id]
    IN  /\ pr.pc = "cr_update"
        /\ Holder(p) = "free"
        /\ IF ReceiptMatches(row)
           THEN /\ rowLock' = [rowLock EXCEPT ![<<"receipts", pr.id>>] = p]
                /\ Goto(p, [pr EXCEPT
                         !.tx = <<<<Write("receipts", pr.id,
                                          ReceiptUpdate(row, pr.admin))>>>>,
                         !.row = row,
                         !.cons = row.consultation,
                         !.ret = IF row.consultation # 0 THEN <<"cr_notify">> ELSE <<>>,
                         !.pc = IF row.consultation # 0 THEN "ccp_update"
                                ELSE IF row.order # 0 THEN "cr_update_order"
                                ELSE "cr_notify"])
           ELSE /\ Goto(p, [pr EXCEPT !.pc = "return"])
                /\ UNCHANGED rowLock
        /\ UNCHANGED <<tables, settings, sequences, notifications, activity_log,
                       callNo, done, stored, task, today, delivered>>

\* ... SET paid_amount = paid_amount + $1
OrderUpdate(row, amount) == [row EXCEPT !.paid_amount = @ + amount]

\* UPDATE orders SET paid_amount = paid_amount + $1 WHERE id = $2, in the
\* method's transaction.
CrUpdateOrder(p) ==
    LET pr == proc[p]
        o == pr.row.order
    IN  /\ pr.pc = "cr_update_order"
        /\ Holder(p) = "free"
        /\ rowLock' = [rowLock EXCEPT ![<<"orders", o>>] = p]
        /\ Goto(p, [pr EXCEPT
                 !.tx = <<Head(@) \o <<Write("orders", o,
                                             OrderUpdate(orders[o], pr.row.amount))>>>>,
                 !.pc = "cr_get_order"])
        /\ UNCHANGED <<tables, settings, sequences, notifications, activity_log,
                       callNo, done, stored, task, today, delivered>>

\* order = get_order(...); if order and order['user_id']:
\*     user = get_user_by_id(order['user_id'])
\*     if user and user['referrer_id']: ...
\* Both read what is committed, on connections of their own.
CrGetOrder(p) ==
    LET pr == proc[p]
        owner == orders[pr.row.order].user
    IN  /\ pr.pc = "cr_get_order"
        /\ Goto(p, [pr EXCEPT
                 !.user = IF owner # 0 THEN users[owner].referrer_id ELSE 0,
                 !.stage = 1,
                 !.pc = IF owner # 0 /\ users[owner].referrer_id # 0
                        THEN "cr_referral" ELSE "cr_notify"])
        /\ UNCHANGED <<tables, settings, sequences, rowLock, notifications,
                       activity_log, callNo, done, stored, task, today, delivered>>

\* The two payments to the referrer, each the reading of a setting and a
\* call of update_user_balance: first int(referral_bonus or 400), then
\* int(amount * int(referral_percentage or 10) / 100) when that is positive.
CrReferral(p) ==
    LET pr == proc[p]
        bonus == TextOr(settings["referral_bonus"], ReferralBonusFallback)
        percentage == TextOr(settings["referral_percentage"], ReferralPercentageFallback)
        share == PercentageBonus(pr.row.amount, percentage)
    IN  /\ pr.pc = "cr_referral"
        /\ Goto(p, IF pr.stage = 1
                   THEN [pr EXCEPT !.amount = bonus, !.stage = 2,
                                   !.pc = "uub_update", !.ret = <<"cr_referral">>]
                   ELSE IF share > 0
                   THEN [pr EXCEPT !.amount = share, !.stage = 3,
                                   !.pc = "uub_update", !.ret = <<"cr_notify">>]
                   ELSE [pr EXCEPT !.stage = 3, !.pc = "cr_notify"])
        /\ UNCHANGED <<tables, settings, sequences, rowLock, notifications,
                       activity_log, callNo, done, stored, task, today, delivered>>

\* create_notification('receipt_confirmed', receipt['user_id'], ...),
\* log_activity(admin_id, 'receipt_confirmed', ...), COMMIT, return True.
CrNotify(p) ==
    LET pr == proc[p]
    IN  /\ pr.pc = "cr_notify"
        /\ Goto(p, [pr EXCEPT
                 !.pc = "notify", !.ntype = "receipt_confirmed",
                 !.nuser = pr.row.user, !.ref = pr.id,
                 !.ltype = "receipt_confirmed", !.luser = pr.admin,
                 !.ret = <<"log_insert", "commit", "return">>,
                 !.res = "True"])
        /\ UNCHANGED <<tables, settings, sequences, rowLock, notifications,
                       activity_log, callNo, done, stored, task, today, delivered>>

\* --------------------------------------------------------- reject_receipt

StartRejectReceipt(p, r, admin) ==
    /\ Begin(p, [IdleProc EXCEPT !.op = "reject_receipt", !.pc = "rr_delete",
                                 !.id = r, !.admin = admin, !.res = "error",
                                 !.seen = TablesSeen])
    /\ UNCHANGED <<tables, settings, sequences, rowLock, notifications,
                   activity_log, done, stored, task, today, delivered>>

\* DELETE FROM receipts WHERE id = $1, outside any transaction and whatever
\* the receipt's confirmed flag; it waits while an open transaction holds the
\* row.  Then log_activity(admin_id, 'receipt_rejected', ...); return True.
RrDelete(p) ==
    LET pr == proc[p]
    IN  /\ pr.pc = "rr_delete"
        /\ Holder(p) = "free"
        /\ receipts' = [receipts EXCEPT ![pr.id] = NoReceipt]
        /\ Goto(p, [pr EXCEPT !.pc = "log_insert", !.ltype = "receipt_rejected",
                              !.luser = pr.admin, !.ref = pr.id,
                              !.ret = <<"return">>, !.res = "True"])
        /\ UNCHANGED <<users, payouts, slots, consultations, user_bonuses, orders,
                       order_stages, order_status_history, user_settings, bonuses,
                       settings, sequences, rowLock, notifications,
                       activity_log, callNo, done, stored, task, today, delivered>>

\* --------------------------------------------------------- activate_bonus

StartActivateBonus(p, u, b) ==
    /\ Begin(p, [IdleProc EXCEPT !.op = "activate_bonus", !.pc = "ab_count",
                                 !.user = u, !.amount = b, !.res = "None",
                                 !.pre = Snapshot(u, 0), !.was = Held(u, b)])
    /\ UNCHANGED <<tables, settings, sequences, rowLock, notifications,
                   activity_log, done, stored, task, today, delivered>>

\* if active_count >= 2: return None
AbCount(p) ==
    LET pr == proc[p]
    IN  /\ pr.pc = "ab_count"
        /\ Goto(p, [pr EXCEPT !.pc = IF ActiveCount(pr.user) >= MaxActiveBonuses
                                     THEN "return" ELSE "ab_existing"])
        /\ UNCHANGED <<tables, settings, sequences, rowLock, notifications,
                       activity_log, callNo, done, stored, task, today, delivered>>

\* existing = SELECT 1 FROM user_bonuses WHERE user_id = $1 AND bonus_id = $2
\* AND status IN ('active', 'pending_review'); if existing: return None
AbExisting(p) ==
    LET pr == proc[p]
        existing == Held(pr.user, pr.amount) \cap {"active", "pending_review"} # {}
    IN  /\ pr.pc = "ab_existing"
        /\ Goto(p, [pr EXCEPT !.pc = IF existing THEN "return" ELSE "ab_get_bonus"])
        /\ UNCHANGED <<tables, settings, sequences, rowLock, notifications,
                       activity_log, callNo, done, stored, task, today, delivered>>

\* bonus = get_bonus(bonus_id); if not bonus: return None
AbGetBonus(p) ==
    LET pr == proc[p]
    IN  /\ pr.pc = "ab_get_bonus"
        /\ Goto(p, [pr EXCEPT !.pc = IF pr.amount \in BonusIds
                                     THEN "ab_insert" ELSE "return"])
        /\ UNCHANGED <<tables, settings, sequences, rowLock, notifications,
                       activity_log, callNo, done, stored, task, today, delivered>>

\* total_required by bonus id: weeks_required (4), clients_required (3), 1.
TotalRequired(b) == IF b = 1 THEN 4 ELSE IF b = 2 THEN 3 ELSE 1

\* Another open transaction has inserted a row for the same user and bonus
\* and has not committed: an INSERT of that pair waits for it.
PairInFlight(p, u, b) ==
    \E q \in Procs \ {p} : \E f \in 1..Len(proc[q].tx) :
        \E i \in 1..Len(proc[q].tx[f]) :
            LET w == proc[q].tx[f][i]
            IN  w.tbl = "user_bonuses" /\ w.row.user = u /\ w.row.bonus = b

\* No UNIQUE(user_id, bonus_id): no pair is ever taken.
PairNeverTaken(u, b) == FALSE

\* UNIQUE(user_id, bonus_id): a committed row of the pair exists, whatever
\* its status.
PairTaken(u, b) == Held(u, b) # {}

\* INSERT INTO user_bonuses (..., 'active') RETURNING *.  The INSERT waits
\* for an uncommitted row of the same pair and raises UniqueViolationError
\* when a committed one exists.  Then log_activity(user_id,
\* 'bonus_activated', ...), COMMIT, return the row.
AbInsert(p) ==
    LET pr == proc[p]
        row == [status |-> "active", user |-> pr.user, bonus |-> pr.amount,
                total_required |-> TotalRequired(pr.amount), reward_paid |-> FALSE]
    IN  /\ pr.pc = "ab_insert"
        /\ ~PairInFlight(p, pr.user, pr.amount)
        /\ nextUserBonusId \in UserBonusIds
        /\ nextUserBonusId' = nextUserBonusId + 1
        /\ IF PairTaken(pr.user, pr.amount)
           THEN Goto(p, [pr EXCEPT !.pc = "return", !.res = "error"])
           ELSE Goto(p, [pr EXCEPT
                    !.tx = <<<<Write("user_bonuses", nextUserBonusId, row)>>>>,
                    !.id = nextUserBonusId,
                    !.pc = "log_insert", !.ltype = "bonus_activated",
                    !.luser = pr.user, !.ref = pr.amount,
                    !.ret = <<"commit", "return">>,
                    !.res = "row"])
        /\ UNCHANGED <<tables, settings, nextPayoutId, nextConsultationId, nextOrderId, nextHistoryId, nextUserId, nextBonusId, rowLock,
                       notifications, activity_log, callNo, done, stored, task, today, delivered>>

\* --------------------------------------------------------- complete_bonus

StartCompleteBonus(p, k) ==
    /\ Begin(p, [IdleProc EXCEPT !.op = "complete_bonus", !.pc = "cb_update",
                                 !.id = k, !.user = user_bonuses[k].user,
                                 !.res = "None",
                                 !.pre = Snapshot(user_bonuses[k].user, 0),
                                 !.was = {user_bonuses[k].status}])
    /\ UNCHANGED <<tables, settings, sequences, rowLock, notifications,
                   activity_log, done, stored, task, today, delivered>>

\* user_bonus = UPDATE user_bonuses SET status = 'pending_review', ... WHERE
\* id = $2 AND status = 'active' RETURNING *; if not user_bonus: return None.
\* The statement waits while another open transaction holds the row.
CbUpdate(p) ==
    LET pr == proc[p]
        row == user_bonuses[pr.id]
    IN  /\ pr.pc = "cb_update"
        /\ Holder(p) = "free"
        /\ IF row.status = "active"
           THEN /\ rowLock' = [rowLock EXCEPT ![<<"user_bonuses", pr.id>>] = p]
                /\ Goto(p, [pr EXCEPT
                         !.tx = <<<<Write("user_bonuses", pr.id,
                                          [row EXCEPT !.status = "pending_review"])>>>>,
                         !.user = row.user, !.amount = row.bonus,
                         !.pc = "cb_get_bonus"])
           ELSE /\ Goto(p, [pr EXCEPT !.pc = "return"])
                /\ UNCHANGED rowLock
        /\ UNCHANGED <<tables, settings, sequences, notifications, activity_log,
                       callNo, done, stored, task, today, delivered>>

\* bonus = get_bonus(user_bonus['bonus_id']); then
\* create_notification('bonus_completion', None, ...),
\* log_activity(user_bonus['user_id'], 'bonus_completed', ...), COMMIT,
\* return the row.
CbGetBonus(p) ==
    LET pr == proc[p]
    IN  /\ pr.pc = "cb_get_bonus"
        /\ Goto(p, [pr EXCEPT
                 !.pc = "notify", !.ntype = "bonus_completion", !.nuser = 0,
                 !.ref = pr.id, !.ltype = "bonus_completed", !.luser = pr.user,
                 !.ret = <<"log_insert", "commit", "return">>,
                 !.res = "row"])
        /\ UNCHANGED <<tables, settings, sequences, rowLock, notifications,
                       activity_log, callNo, done, stored, task, today, delivered>>

\* ---------------------------------------------------------- approve_bonus

\* bonuses.reward of the four default bonuses.
Reward(b) == IF b \in {1, 2} THEN 300 ELSE IF b = 3 THEN 1000 ELSE 0

StartApproveBonus(p, k, admin) ==
    /\ Begin(p, [IdleProc EXCEPT !.op = "approve_bonus", !.pc = "apb_select",
                                 !.id = k, !.admin = admin,
                                 !.user = user_bonuses[k].user,
                                 !.amount = Reward(user_bonuses[k].bonus),
                                 !.res = "False",
                                 !.pre = Snapshot(user_bonuses[k].user, 0),
                                 !.was = {user_bonuses[k].status}])
    /\ UNCHANGED <<tables, settings, sequences, rowLock, notifications,
                   activity_log, done, stored, task, today, delivered>>

\* user_bonus = SELECT ub.*, b.reward, u.balance FROM user_bonuses ub JOIN
\* bonuses b ... JOIN users u ... WHERE ub.id = $1 AND ub.status =
\* 'pending_review'; if not user_bonus: return False
ApbSelect(p) ==
    LET pr == proc[p]
        row == user_bonuses[pr.id]
    IN  /\ pr.pc = "apb_select"
        /\ Goto(p, IF row.status = "pending_review"
                   THEN [pr EXCEPT !.pc = "apb_update", !.user = row.user,
                                   !.amount = Reward(row.bonus)]
                   ELSE [pr EXCEPT !.pc = "return"])
        /\ UNCHANGED <<tables, settings, sequences, rowLock, notifications,
                       activity_log, callNo, done, stored, task, today, delivered>>

\* UPDATE user_bonuses SET status = 'completed', reward_paid = TRUE WHERE
\* id = $1: the WHERE clause names the id only.
BonusApproval(row) ==
    IF row.status = "absent" THEN row
    ELSE [row EXCEPT !.status = "completed", !.reward_paid = TRUE]

\* The update; then, if user_bonus['reward'] > 0, update_user_balance(user,
\* reward, 'bonus_reward') on a second connection.
ApbUpdate(p) ==
    LET pr == proc[p]
    IN  /\ pr.pc = "apb_update"
        /\ Holder(p) = "free"
        /\ rowLock' = [rowLock EXCEPT ![<<"user_bonuses", pr.id>>] = p]
        /\ Goto(p, [pr EXCEPT
                 !.tx = <<<<Write("user_bonuses", pr.id,
                                  BonusApproval(user_bonuses[pr.id]))>>>>,
                 !.pc = IF pr.amount > 0 THEN "uub_update" ELSE "apb_get_bonus",
                 !.ret = IF pr.amount > 0 THEN <<"apb_get_bonus">> ELSE <<>>])
        /\ UNCHANGED <<tables, settings, sequences, notifications, activity_log,
                       callNo, done, stored, task, today, delivered>>

\* bonus = get_bonus(...); then create_notification('bonus_approved', user,
\* ...), log_activity(admin_id, 'bonus_approved', ...), COMMIT, return True.
ApbGetBonus(p) ==
    LET pr == proc[p]
    IN  /\ pr.pc = "apb_get_bonus"
        /\ Goto(p, [pr EXCEPT
                 !.pc = "notify", !.ntype = "bonus_approved", !.nuser = pr.user,
                 !.ref = pr.id, !.ltype = "bonus_approved", !.luser = pr.admin,
                 !.ret = <<"log_insert", "commit", "return">>,
                 !.res = "True"])
        /\ UNCHANGED <<tables, settings, sequences, rowLock, notifications,
                       activity_log, callNo, done, stored, task, today, delivered>>

\* ----------------------------------------------------------- reject_bonus

StartRejectBonus(p, k, admin) ==
    /\ Begin(p, [IdleProc EXCEPT !.op = "reject_bonus", !.pc = "rb_update",
                                 !.id = k, !.admin = admin, !.reason = "declined",
                                 !.user = user_bonuses[k].user,
                                 !.res = "True",
                                 !.pre = Snapshot(user_bonuses[k].user, 0),
                                 !.was = {user_bonuses[k].status}])
    /\ UNCHANGED <<tables, settings, sequences, rowLock, notifications,
                   activity_log, done, stored, task, today, delivered>>

\* UPDATE user_bonuses SET status = 'rejected' WHERE id = $1
BonusRejection(row) ==
    IF row.status = "absent" THEN row ELSE [row EXCEPT !.status = "rejected"]

\* The update, outside any transaction: it waits for the row's lock and is
\* committed at once.
RbUpdate(p) ==
    LET pr == proc[p]
    IN  /\ pr.pc = "rb_update"
        /\ Holder(p) = "free"
        /\ user_bonuses' = [user_bonuses EXCEPT ![pr.id] = BonusRejection(@)]
        /\ Goto(p, [pr EXCEPT !.pc = "rb_select"])
        /\ UNCHANGED <<users, payouts, slots, consultations, receipts, orders,
                       order_stages, order_status_history, user_settings, bonuses, settings, sequences,
                       rowLock, notifications, activity_log, callNo, done, stored, task, today, delivered>>

\* user_bonus = SELECT ub.*, u.telegram_id ... WHERE ub.id = $1; if
\* user_bonus: create_notification('bonus_rejected', user, ...); then
\* log_activity(admin_id, 'bonus_rejected', ...), return True.
RbSelect(p) ==
    LET pr == proc[p]
        row == user_bonuses[pr.id]
        log == [pr EXCEPT !.ref = pr.id, !.ltype = "bonus_rejected",
                          !.luser = pr.admin]
    IN  /\ pr.pc = "rb_select"
        /\ Goto(p, IF row.status # "absent"
                   THEN [log EXCEPT !.pc = "notify", !.ntype = "bonus_rejected",
                                    !.nuser = row.user,
                                    !.ret = <<"log_insert", "return">>]
                   ELSE [log EXCEPT !.pc = "log_insert", !.ret = <<"return">>])
        /\ UNCHANGED <<tables, settings, sequences, rowLock, notifications,
                       activity_log, callNo, done, stored, task, today, delivered>>

\* ------------------------------------------------- cmd_start, create_user

RefPrefix == <<"ref_", 0>>

StartWord == <<"start", 0>>

\* referrer_code.replace('ref_', ''): every occurrence of the text is removed.
RECURSIVE Clean(_)
Clean(code) ==
    IF code = <<>> THEN <<>>
    ELSE IF Head(code) = RefPrefix THEN Clean(Tail(code))
    ELSE <<Head(code)>> \o Clean(Tail(code))

\* SELECT id FROM users WHERE referral_code = $1 (0: no row).  The column
\* is UNIQUE, so at most one row matches.
UserByCode(code) ==
    IF \E u \in AllUserIds : users[u].telegram_id # 0 /\ users[u].referral_code = code
    THEN CHOOSE u \in AllUserIds :
             users[u].telegram_id # 0 /\ users[u].referral_code = code
    ELSE 0

\* SELECT ... FROM users u ... WHERE u.telegram_id = $1 finds a row.
TelegramKnown(tg) == \E u \in AllUserIds : users[u].telegram_id = tg

\* /start with argument code from Telegram account tg:
\* args = message.get_args(); referrer_code = args if args else None.
StartCmdStart(p, tg, code) ==
    /\ Begin(p, [IdleProc EXCEPT !.op = "cmd_start", !.pc = "cs_get_user",
                                 !.tg = tg, !.code = code, !.res = "error"])
    /\ UNCHANGED <<tables, settings, sequences, rowLock, notifications,
                   activity_log, done, stored, task, today, delivered>>

\* user = await db.get_user(message.from_user.id); if not user: create_user.
CsGetUser(p) ==
    LET pr == proc[p]
    IN  /\ pr.pc = "cs_get_user"
        /\ IF TelegramKnown(pr.tg)
           THEN Goto(p, [pr EXCEPT !.pc = "return", !.res = "known"])
           ELSE Goto(p, [pr EXCEPT !.pc = "cu_lookup"])
        /\ UNCHANGED <<tables, settings, sequences, rowLock, notifications,
                       activity_log, callNo, done, stored, task, today, delivered>>

\* referrer_id = None; if referrer_code and referrer_code != 'start': the
\* cleaned code is looked up and referrer_id = referrer['id'] when found.
ReferrerOfUncleaned(code) ==
    IF code # <<>> /\ code # <<StartWord>> THEN UserByCode(code) ELSE 0

ReferrerOf(code) ==
    IF code # <<>> /\ code # <<StartWord>> THEN UserByCode(Clean(code)) ELSE 0

CuLookup(p) ==
    LET pr == proc[p]
    IN  /\ pr.pc = "cu_lookup"
        /\ Goto(p, [pr EXCEPT !.pc = "cu_insert", !.referrer = ReferrerOf(pr.code),
                              !.seen = TablesSeen])
        /\ UNCHANGED <<tables, settings, sequences, rowLock, notifications,
                       activity_log, callNo, done, stored, task, today, delivered>>

\* INSERT INTO users (telegram_id, username, full_name, referral_code,
\* referrer_id) VALUES (...) RETURNING *, outside any transaction.  The id is
\* drawn from the sequence before telegram_id UNIQUE is checked; a row with
\* the same telegram_id makes the statement raise UniqueViolationError, which
\* nothing catches.
NewUser(tg, referrer) ==
    [NoUser EXCEPT !.telegram_id = tg, !.referral_code = NewReferralCode(tg),
                   !.referrer_id = referrer]

CuInsert(p) ==
    LET pr == proc[p]
    IN  /\ pr.pc = "cu_insert"
        /\ nextUserId' = nextUserId + 1
        /\ IF TelegramKnown(pr.tg)
           THEN /\ Goto(p, [pr EXCEPT !.pc = "return", !.res = "unique_violation"])
                /\ UNCHANGED users
           ELSE /\ users' = [users EXCEPT ![nextUserId] = NewUser(pr.tg, pr.referrer)]
                /\ Goto(p, [pr EXCEPT !.pc = "cu_settings", !.id = nextUserId,
                                      !.user = nextUserId])
        /\ UNCHANGED <<payouts, slots, consultations, user_bonuses, receipts, orders,
                       order_stages, order_status_history, user_settings, bonuses,
                       nextPayoutId, nextConsultationId, nextUserBonusId, nextOrderId,
                       nextHistoryId, nextBonusId, settings, rowLock, notifications,
                       activity_log, callNo, done, stored, task, today, delivered>>

\* INSERT INTO user_settings (user_id) VALUES ($1); then
\* log_activity(user['id'], 'user_registration', ...); then, if referrer_id,
\* create_notification('new_referral', referrer_id, {'new_user_id': ...});
\* return dict(user).
CuSettings(p) ==
    LET pr == proc[p]
    IN  /\ pr.pc = "cu_settings"
        /\ user_settings' = [user_settings EXCEPT ![pr.id] = DefaultUserSettings]
        /\ Goto(p, [pr EXCEPT !.pc = "log_insert", !.ltype = "user_registration",
                              !.luser = pr.id, !.ref = pr.id,
                              !.ntype = "new_referral", !.nuser = pr.referrer,
                              !.ret = IF pr.referrer # 0 THEN <<"notify", "return">>
                                      ELSE <<"return">>,
                              !.res = "row"])
        /\ UNCHANGED <<users, payouts, slots, consultations, user_bonuses, receipts,
                       orders, order_stages, order_status_history, bonuses,
                       settings, sequences, rowLock, notifications,
                       activity_log, callNo, done, stored, task, today, delivered>>

\* ----------------------------------------------------------- create_order

StartCreateOrder(p, u) ==
    /\ nextOrderId \in OrderIds
    /\ Begin(p, [IdleProc EXCEPT !.op = "create_order", !.pc = "co_insert",
                                 !.user = u, !.res = "error", !.seen = TablesSeen])
    /\ UNCHANGED <<tables, settings, sequences, rowLock, notifications,
                   activity_log, done, stored, task, today, delivered>>

\* order = INSERT INTO orders (...) VALUES (...) RETURNING *, outside any
\* transaction: committed at once.  No statement follows that inserts the
\* stages of the order.
CoInsert(p) ==
    LET pr == proc[p]
    IN  /\ pr.pc = "co_insert"
        /\ orders' = [orders EXCEPT ![nextOrderId] = NewOrder(pr.user)]
        /\ nextOrderId' = nextOrderId + 1
        /\ Goto(p, [pr EXCEPT !.id = nextOrderId, !.pc = "co_get_user"])
        /\ UNCHANGED <<users, payouts, slots, consultations, user_bonuses, receipts,
                       order_stages, order_status_history, user_settings, bonuses,
                       nextPayoutId, nextConsultationId, nextUserBonusId,
                       nextHistoryId, nextUserId, nextBonusId, settings, rowLock, notifications,
                       activity_log, callNo, done, stored, task, today, delivered>>

\* user = get_user_by_id(user_id); create_notification('new_order', None,
\* ..., admin_only=True); return dict(order).
CoGetUser(p) ==
    LET pr == proc[p]
    IN  /\ pr.pc = "co_get_user"
        /\ Goto(p, [pr EXCEPT !.pc = "notify", !.ntype = "new_order", !.nuser = 0,
                              !.ref = pr.id, !.ret = <<"return">>, !.res = "row"])
        /\ UNCHANGED <<tables, settings, sequences, rowLock, notifications,
                       activity_log, callNo, done, stored, task, today, delivered>>

\* ----------------------------------------------------- update_order_stage

\* The order_stages rows as p's open transaction sees them: what is
\* committed, under its own writes.
StagesSeen(p) ==
    IF proc[p].tx = <<>> THEN order_stages
    ELSE Applied(order_stages, "order_stages", Head(proc[p].tx))

\* SELECT COUNT(*) FROM order_stages WHERE order_id = $1 AND completed = TRUE
CompletedStages(p, o) ==
    Cardinality({n \in StageNumbers :
        StagesSeen(p)[<<o, n>>].exists /\ StagesSeen(p)[<<o, n>>].completed})

\* SELECT COUNT(*) FROM order_stages WHERE order_id = $1
CountedStages(p, o) ==
    Cardinality({n \in StageNumbers : StagesSeen(p)[<<o, n>>].exists})

\* int((completed_stages / total_stages) * 100) if total_stages > 0 else 0
ProgressPercent(count, total) == IF total > 0 THEN (count * 100) \div total ELSE 0

\* min(completed_stages + 1, total_stages)
CurrentStage(count, total) == IF count + 1 < total THEN count + 1 ELSE total

StartUpdateOrderStage(p, o, n, completed) ==
    /\ Begin(p, [IdleProc EXCEPT
             !.op = "update_order_stage", !.pc = "usg_update_stage",
             !.id = o, !.number = n, !.completed = completed, !.res = "error",
             !.tx = <<<<>>>>, !.seen = TablesSeen, !.was = {orders[o].status}])
    /\ UNCHANGED <<tables, settings, sequences, rowLock, notifications,
                   activity_log, done, stored, task, today, delivered>>

\* UPDATE order_stages SET completed = $1, ... WHERE order_id = $2 AND
\* stage_number = $4, in the method's transaction: the row, if there is one.
UsgUpdateStage(p) ==
    LET pr == proc[p]
        k == <<pr.id, pr.number>>
    IN  /\ pr.pc = "usg_update_stage"
        /\ Holder(p) = "free"
        /\ IF order_stages[k].exists
           THEN /\ rowLock' = [rowLock EXCEPT ![<<"order_stages", k>>] = p]
                /\ Goto(p, [pr EXCEPT
                         !.tx = <<Head(@) \o <<Write("order_stages", k,
                                     [order_stages[k] EXCEPT !.completed = pr.completed])>>>>,
                         !.pc = "usg_count_completed"])
           ELSE /\ Goto(p, [pr EXCEPT !.pc = "usg_count_completed"])
                /\ UNCHANGED rowLock
        /\ UNCHANGED <<tables, settings, sequences, notifications, activity_log,
                       callNo, done, stored, task, today, delivered>>

\* completed_stages = SELECT COUNT(*) ... AND completed = TRUE
UsgCountCompleted(p) ==
    LET pr == proc[p]
    IN  /\ pr.pc = "usg_count_completed"
        /\ Goto(p, [pr EXCEPT !.count = CompletedStages(p, pr.id),
                              !.pc = "usg_count_total"])
        /\ UNCHANGED <<tables, settings, sequences, rowLock, notifications,
                       activity_log, callNo, done, stored, task, today, delivered>>

\* total_stages = SELECT COUNT(*) FROM order_stages WHERE order_id = $1
UsgCountTotal(p) ==
    LET pr == proc[p]
    IN  /\ pr.pc = "usg_count_total"
        /\ Goto(p, [pr EXCEPT !.total = CountedStages(p, pr.id),
                              !.pc = "usg_update_order"])
        /\ UNCHANGED <<tables, settings, sequences, rowLock, notifications,
                       activity_log, callNo, done, stored, task, today, delivered>>

\* The recomputation with "current_stage = current_stage + 1" in place of
\* the count.
StageProgressCounting(row, count, total) ==
    [row EXCEPT !.current_stage = @ + 1,
                !.progress_percent = ProgressPercent(count, total)]

\* ... SET current_stage = $1, progress_percent = $2 with
\* min(completed_stages + 1, total_stages) and progress_percent
StageProgress(row, count, total) ==
    [row EXCEPT !.current_stage = CurrentStage(count, total),
                !.progress_percent = ProgressPercent(count, total)]

\* UPDATE orders SET current_stage = $1, progress_percent = $2 WHERE id =
\* $3, in the method's transaction.
UsgUpdateOrder(p) ==
    LET pr == proc[p]
        o == pr.id
    IN  /\ pr.pc = "usg_update_order"
        /\ Holder(p) = "free"
        /\ IF orders[o].user # 0
           THEN /\ rowLock' = [rowLock EXCEPT ![<<"orders", o>>] = p]
                /\ Goto(p, [pr EXCEPT
                         !.tx = <<Head(@) \o <<Write("orders", o,
                                     StageProgress(orders[o], pr.count, pr.total))>>>>,
                         !.pc = IF pr.completed THEN "usg_get_order" ELSE "commit",
                         !.ret = <<"return">>, !.res = "True"])
           ELSE /\ Goto(p, [pr EXCEPT
                         !.pc = IF pr.completed THEN "usg_get_order" ELSE "commit",
                         !.ret = <<"return">>, !.res = "True"])
                /\ UNCHANGED rowLock
        /\ UNCHANGED <<tables, settings, sequences, notifications, activity_log,
                       callNo, done, stored, task, today, delivered>>

\* if completed: order = get_order(order_id), on a connection of its own
\* (what is committed); if order: the owner's user_settings row; if it has
\* order_notifications: create_notification('order_stage_completed',
\* order['user_id'], ...).  Then COMMIT, return True.
UsgGetOrder(p) ==
    LET pr == proc[p]
        owner == orders[pr.id].user
        notified == /\ owner # 0
                    /\ user_settings[owner].exists
                    /\ user_settings[owner].order_notifications
    IN  /\ pr.pc = "usg_get_order"
        /\ Goto(p, IF notified
                   THEN [pr EXCEPT !.pc = "notify", !.ntype = "order_stage_completed",
                                   !.nuser = owner, !.ref = pr.id,
                                   !.ret = <<"commit", "return">>]
                   ELSE [pr EXCEPT !.pc = "commit"])
        /\ UNCHANGED <<tables, settings, sequences, rowLock, notifications,
                       activity_log, callNo, done, stored, task, today, delivered>>

\* ---------------------------------------------------- update_order_status

\* notes, the text an admin attaches to a change of status.
StatusNote == "note"

\* CURRENT_TIMESTAMP of the method's transaction: the place of the call
\* among the calls made.
StartUpdateOrderStatus(p, o, status, changed_by) ==
    /\ nextHistoryId \in HistoryIds
    /\ Begin(p, [IdleProc EXCEPT
             !.op = "update_order_status", !.pc = "uos_update",
             !.id = o, !.status = status, !.admin = changed_by,
             !.reason = StatusNote, !.at = callNo + 1, !.res = "error",
             !.seen = TablesSeen, !.was = {orders[o].status}])
    /\ UNCHANGED <<tables, settings, sequences, rowLock, notifications,
                   activity_log, done, stored, task, today, delivered>>

\* ... SET status = $1, completed_at = CASE WHEN $1 = 'completed' THEN
\* CURRENT_TIMESTAMP ELSE completed_at END
StatusUpdate(row, status, at) ==
    [row EXCEPT !.status = status,
                !.completed_at = IF status = "completed" THEN at ELSE @]

\* UPDATE orders SET status = $1, ... WHERE id = $2, in the method's
\* transaction.
UosUpdate(p) ==
    LET pr == proc[p]
    IN  /\ pr.pc = "uos_update"
        /\ Holder(p) = "free"
        /\ rowLock' = [rowLock EXCEPT ![<<"orders", pr.id>>] = p]
        /\ Goto(p, [pr EXCEPT
                 !.tx = <<<<Write("orders", pr.id,
                                  StatusUpdate(orders[pr.id], pr.status, pr.at))>>>>,
                 !.pc = "uos_insert"])
        /\ UNCHANGED <<tables, settings, sequences, notifications, activity_log,
                       callNo, done, stored, task, today, delivered>>

\* The history row carrying the status the order had, not the one it gets.
HistoryEntryStale(o, status, changed_by, notes) ==
    [order |-> o, status |-> orders[o].status, changed_by |-> changed_by,
     notes |-> notes]

\* INSERT INTO order_status_history (order_id, status, changed_by, notes)
\* VALUES ($1, $2, $3, $4)
HistoryEntry(o, status, changed_by, notes) ==
    [order |-> o, status |-> status, changed_by |-> changed_by, notes |-> notes]

\* The INSERT into order_status_history, in the same transaction; then
\* if changed_by: log_activity(changed_by, 'order_status_changed', ...);
\* COMMIT, return True.
UosInsert(p) ==
    LET pr == proc[p]
    IN  /\ pr.pc = "uos_insert"
        /\ nextHistoryId' = nextHistoryId + 1
        /\ Goto(p, [pr EXCEPT
                 !.tx = <<Head(@) \o <<Write("order_status_history", nextHistoryId,
                             HistoryEntry(pr.id, pr.status, pr.admin, pr.reason))>>>>,
                 !.cons = nextHistoryId,
                 !.pc = IF pr.admin # 0 THEN "log_insert" ELSE "commit",
                 !.ltype = "order_status_changed", !.luser = pr.admin,
                 !.ref = pr.id,
                 !.ret = IF pr.admin # 0 THEN <<"commit", "return">> ELSE <<"return">>,
                 !.res = "True"])
        /\ UNCHANGED <<tables, settings, nextPayoutId, nextConsultationId,
                       nextUserBonusId, nextOrderId, nextUserId, nextBonusId, rowLock, notifications,
                       activity_log, callNo, done, stored, task, today, delivered>>

\* ------------------------------------------------------- the payout engine

\* What every start has: the settings initialize_default_data has just
\* written (its upsert overwrites the stored values), no open transaction,
\* no call made.
DefaultSettings ==
    [key \in {"min_payout", "consultation_price", "consultation_duration",
              "referral_bonus", "referral_percentage"} |->
        CASE key = "min_payout" -> DefaultMinPayoutText
          [] key = "consultation_price" -> DefaultConsultationPriceText
          [] key = "consultation_duration" -> DefaultConsultationDurationText
          [] key = "referral_bonus" -> DefaultReferralBonusText
          [] key = "referral_percentage" -> DefaultReferralPercentageText]

\* What the store holds of orders whatever their number: no stage rows (no
\* statement of the program inserts into order_stages), and the settings
\* row create_user gave every user.
OrderRecords ==
    /\ order_stages = [k \in StageKeys |-> NoStage]
    /\ user_settings = [u \in AllUserIds |->
                          IF u \in UserIds THEN DefaultUserSettings ELSE NoUserSettings]

\* No order placed and no receipt uploaded yet.
NoPayments ==
    /\ receipts = [r \in ReceiptIds |-> NoReceipt]
    /\ orders = [o \in OrderIds |-> NoOrder]
    /\ nextOrderId = 1
    /\ order_status_history = [h \in HistoryIds |-> NoHistory]
    /\ nextHistoryId = 1
    /\ OrderRecords

InitIdle ==
    /\ settings = DefaultSettings
    /\ nextUserId = 3
    /\ bonuses = SeededOnce
    /\ nextBonusId = Cardinality(BonusIds) + 1
    /\ rowLock = [k \in LockKeys |-> "free"]
    /\ notifications = EmptyBag
    /\ activity_log = {}
    /\ proc = [p \in Procs |-> IdleProc]
    /\ callNo = 0
    /\ done = {}
    /\ today = 0
    /\ delivered = EmptyBag
    /\ task = [t \in PoolTasks |-> 0]
    /\ stored = [users |-> users, slots |-> slots, consultations |-> consultations,
                 orders |-> orders]

\* The store when the pool connects: initialize_default_data has just
\* written the default settings; the users and payouts tables hold what
\* earlier runs left, here a user with a balance and possibly one pending
\* payout whose amount is held in pending_earnings.
InitPayout ==
    /\ \E b \in StoredBalances, held \in {0, 2000} :
          /\ users = [u \in AllUserIds |->
                        IF u \notin UserIds THEN NoUser
                        ELSE IF u = 1
                        THEN Registered(u, [balance |-> b, total_earned |-> b + held,
                                            pending_earnings |-> held, referrer_id |-> 0])
                        ELSE Registered(u, [balance |-> 0, total_earned |-> 0,
                                            pending_earnings |-> 0, referrer_id |-> 0])]
          /\ payouts = [k \in PayoutIds |->
                          IF k = 1 /\ held > 0
                          THEN [status |-> "pending", user |-> 1, amount |-> held,
                                by |-> 0, reason |-> ""]
                          ELSE NoPayout]
          /\ nextPayoutId = IF held > 0 THEN 2 ELSE 1
    /\ slots = [s \in SlotIds |-> FreeSlot]
    /\ consultations = [k \in ConsultationIds |-> NoConsultation]
    /\ nextConsultationId = 1
    /\ user_bonuses = [k \in UserBonusIds |-> NoUserBonus]
    /\ nextUserBonusId = 1
    /\ NoPayments
    /\ InitIdle

NextPayout ==
    \E p \in Procs :
        \/ \E amt \in PayoutAmounts : StartCreatePayoutRequest(p, 1, amt)
        \/ CprSelectBalance(p)
        \/ CprSelectMin(p)
        \/ CprInsert(p)
        \/ CprReserve(p)
        \/ \E admin \in UserIds, approve \in BOOLEAN :
               StartProcessPayout(p, 1, admin, approve)
        \/ PpSelect(p)
        \/ PpUpdatePayout(p)
        \/ PpUpdateUser(p)
        \/ \E amt \in BalanceDeltas : StartUpdateUserBalance(p, 1, amt)
        \/ UubUpdate(p)
        \/ \E text \in MinPayoutTexts : UpdateSystemSetting(p, "min_payout", text)
        \/ CreateNotification(p)
        \/ LogInsert(p)
        \/ LogUpdate(p)
        \/ Commit(p)
        \/ LockTimeout(p)
        \/ Return(p)

SpecPayout == InitPayout /\ [][NextPayout]_vars

\* ------------------------------------------------------ the booking engine

\* A consultation an earlier booking of slot s by user u has left.
StoredConsultation(u, s, paid) ==
    [status |-> IF paid THEN "confirmed" ELSE "pending", user |-> u, slot |-> s,
     price |-> ConsultationPriceFallback, duration |-> ColumnDefaultDuration,
     number |-> 1, payment_confirmed |-> paid, manager |-> IF paid THEN 2 ELSE 0,
     date |-> SlotDate(s), reminder_sent |-> FALSE]

\* Two users and the slots an admin has added: slot 1, and slot 2 unless it
\* is still to be added; slot 2 may have been booked already.
InitBooking ==
    /\ users = [u \in AllUserIds |->
                  IF u \notin UserIds THEN NoUser
                  ELSE Registered(u, [balance |-> 0, total_earned |-> 0,
                                      pending_earnings |-> 0, referrer_id |-> 0])]
    /\ payouts = [k \in PayoutIds |-> NoPayout]
    /\ nextPayoutId = 1
    /\ \E second \in {"free", "booked", "absent"} :
          /\ slots = [s \in SlotIds |->
                        IF s = 2 /\ second = "booked"
                        THEN [exists |-> TRUE, is_available |-> FALSE, booked_by |-> 2]
                        ELSE IF s = 2 /\ second = "absent" THEN NoSlot
                        ELSE FreeSlot]
          /\ consultations = [k \in ConsultationIds |->
                                IF k = 1 /\ second = "booked"
                                THEN StoredConsultation(2, 2, FALSE)
                                ELSE NoConsultation]
          /\ nextConsultationId = IF second = "booked" THEN 2 ELSE 1
    /\ user_bonuses = [k \in UserBonusIds |-> NoUserBonus]
    /\ nextUserBonusId = 1
    /\ NoPayments
    /\ InitIdle

NextBooking ==
    \E p \in Procs :
        \/ \E u \in UserIds, s \in SlotIds : StartBookConsultation(p, u, s)
        \/ BcUpdate(p)
        \/ BcSelectPrice(p)
        \/ BcInsert(p)
        \/ BcGetUser(p)
        \/ \E d \in SlotIds : StartAddConsultationSlot(p, 2, d)
        \/ AcsInsert(p)
        \/ CancelConsultation(p)
        \/ \E kv \in BookingSettings : UpdateSystemSetting(p, kv[1], kv[2])
        \/ CreateNotification(p)
        \/ LogInsert(p)
        \/ LogUpdate(p)
        \/ Commit(p)
        \/ Return(p)

SpecBooking == InitBooking /\ [][NextBooking]_vars

\* -------------------------------------------------------- the bonus engine

\* User 1 may have bonus 1 from an earlier activation: still active, or
\* completed.
InitBonus ==
    /\ users = [u \in AllUserIds |->
                  IF u \notin UserIds THEN NoUser
                  ELSE Registered(u, [balance |-> 0, total_earned |-> 0,
                                      pending_earnings |-> 0, referrer_id |-> 0])]
    /\ payouts = [k \in PayoutIds |-> NoPayout]
    /\ nextPayoutId = 1
    /\ slots = [s \in SlotIds |-> FreeSlot]
    /\ consultations = [k \in ConsultationIds |-> NoConsultation]
    /\ nextConsultationId = 1
    /\ \E st \in {"absent", "active", "pending_review", "completed"}, b \in {1, 4} :
          /\ st # "pending_review" => b = 1
          /\ user_bonuses = [k \in UserBonusIds |->
                               IF k = 1 /\ st # "absent"
                               THEN [status |-> st, user |-> 1, bonus |-> b,
                                     total_required |-> TotalRequired(b),
                                     reward_paid |-> st = "completed"]
                               ELSE NoUserBonus]
          /\ nextUserBonusId = IF st = "absent" THEN 1 ELSE 2
    /\ NoPayments
    /\ InitIdle

NextBonus ==
    \E p \in Procs :
        \/ \E b \in BonusInputs : StartActivateBonus(p, 1, b)
        \/ AbCount(p)
        \/ AbExisting(p)
        \/ AbGetBonus(p)
        \/ AbInsert(p)
        \/ StartCompleteBonus(p, 1)
        \/ CbUpdate(p)
        \/ CbGetBonus(p)
        \/ \E admin \in {2} : StartApproveBonus(p, 1, admin)
        \/ ApbSelect(p)
        \/ ApbUpdate(p)
        \/ UubUpdate(p)
        \/ ApbGetBonus(p)
        \/ \E admin \in {2} : StartRejectBonus(p, 1, admin)
        \/ RbUpdate(p)
        \/ RbSelect(p)
        \/ CreateNotification(p)
        \/ LockTimeout(p)
        \/ LogInsert(p)
        \/ LogUpdate(p)
        \/ Commit(p)
        \/ Return(p)

SpecBonus == InitBonus /\ [][NextBonus]_vars

\* ------------------------------------------------------ the receipt engine

ReceiptAmount == 1000

\* User 1, invited by user 2 or by nobody, has placed order 1 and booked a
\* consultation, and has uploaded a receipt for each; the consultation's
\* payment may have been confirmed already.
InitReceipt ==
    /\ \E inviter \in {0, 2} :
          users = [u \in AllUserIds |->
                     IF u \notin UserIds THEN NoUser
                     ELSE Registered(u, [balance |-> 0, total_earned |-> 0,
                                         pending_earnings |-> 0,
                                         referrer_id |-> IF u = 1 THEN inviter ELSE 0])]
    /\ payouts = [k \in PayoutIds |-> NoPayout]
    /\ nextPayoutId = 1
    /\ slots = [s \in SlotIds |->
                  IF s = 1 THEN [exists |-> TRUE, is_available |-> FALSE, booked_by |-> 1]
                  ELSE FreeSlot]
    /\ \E paid \in BOOLEAN :
          consultations = [k \in ConsultationIds |->
                             IF k = 1 THEN StoredConsultation(1, 1, paid)
                             ELSE NoConsultation]
    /\ nextConsultationId = 2
    /\ user_bonuses = [k \in UserBonusIds |-> NoUserBonus]
    /\ nextUserBonusId = 1
    /\ orders = [o \in OrderIds |-> IF o = 1 THEN NewOrder(1) ELSE NoOrder]
    /\ nextOrderId = 2
    /\ order_status_history = [h \in HistoryIds |-> NoHistory]
    /\ nextHistoryId = 1
    /\ OrderRecords
    /\ receipts = [r \in ReceiptIds |->
                     [exists |-> TRUE, confirmed |-> FALSE, user |-> 1,
                      amount |-> IF r = 1 THEN ReceiptAmount ELSE ConsultationPriceFallback,
                      order |-> IF r = 1 THEN 1 ELSE 0,
                      consultation |-> IF r = 1 THEN 0 ELSE 1,
                      confirmed_by |-> 0]]
    /\ InitIdle

NextReceipt ==
    \E p \in Procs :
        \/ \E r \in ReceiptIds : StartConfirmReceipt(p, r, 2)
        \/ CrUpdate(p)
        \/ CrUpdateOrder(p)
        \/ CrGetOrder(p)
        \/ CrReferral(p)
        \/ CrNotify(p)
        \/ StartRejectReceipt(p, 1, 2)
        \/ RrDelete(p)
        \/ \E admin \in UserIds : StartConfirmConsultationPayment(p, 1, admin)
        \/ CcpUpdate(p)
        \/ CcpGetAdmin(p)
        \/ UubUpdate(p)
        \/ \E kv \in ReferralSettings : UpdateSystemSetting(p, kv[1], kv[2])
        \/ CreateNotification(p)
        \/ LockTimeout(p)
        \/ LogInsert(p)
        \/ LogUpdate(p)
        \/ Commit(p)
        \/ Return(p)

SpecReceipt == InitReceipt /\ [][NextReceipt]_vars

\* -------------------------------------------------------- the order engine

\* The statuses and actors update_order_status is called with.
StatusChanges ==
    (OrderStatuses \X {2}) \cup {<<"completed", 0>>}

\* User 1 has placed order 1 in an earlier run (nothing has been done with
\* it since) and may have switched the order notifications off.
InitOrder ==
    /\ users = [u \in AllUserIds |->
                  IF u \notin UserIds THEN NoUser
                  ELSE Registered(u, [balance |-> 0, total_earned |-> 0,
                                      pending_earnings |-> 0, referrer_id |-> 0])]
    /\ payouts = [k \in PayoutIds |-> NoPayout]
    /\ nextPayoutId = 1
    /\ slots = [s \in SlotIds |-> FreeSlot]
    /\ consultations = [k \in ConsultationIds |-> NoConsultation]
    /\ nextConsultationId = 1
    /\ user_bonuses = [k \in UserBonusIds |-> NoUserBonus]
    /\ nextUserBonusId = 1
    /\ receipts = [r \in ReceiptIds |-> NoReceipt]
    /\ orders = [o \in OrderIds |-> IF o = 1 THEN NewOrder(1) ELSE NoOrder]
    /\ nextOrderId = 2
    /\ order_status_history = [h \in HistoryIds |-> NoHistory]
    /\ nextHistoryId = 1
    /\ order_stages = [k \in StageKeys |-> NoStage]
    /\ \E on \in BOOLEAN :
          user_settings = [u \in AllUserIds |->
                             IF u \notin UserIds THEN NoUserSettings
                             ELSE [DefaultUserSettings EXCEPT
                                       !.order_notifications = u # 1 \/ on]]
    /\ InitIdle

NextOrder ==
    \E p \in Procs :
        \/ StartCreateOrder(p, 1)
        \/ CoInsert(p)
        \/ CoGetUser(p)
        \/ \E completed \in BOOLEAN : StartUpdateOrderStage(p, 1, 1, completed)
        \/ UsgUpdateStage(p)
        \/ UsgCountCompleted(p)
        \/ UsgCountTotal(p)
        \/ UsgUpdateOrder(p)
        \/ UsgGetOrder(p)
        \/ \E ch \in StatusChanges : StartUpdateOrderStatus(p, 1, ch[1], ch[2])
        \/ UosUpdate(p)
        \/ UosInsert(p)
        \/ CreateNotification(p)
        \/ LogInsert(p)
        \/ LogUpdate(p)
        \/ Commit(p)
        \/ Return(p)

SpecOrder == InitOrder /\ [][NextOrder]_vars

\* Registration: users 1 and 2 are registered; accounts 77 and 88 are not.
\* /start arrives without argument, with the word start, with the code of
\* user 1 (bare, under the ref_ prefix of the referral link, under the prefix
\* twice), with a code nobody has, and with the code of an account that
\* registers in the same behaviour.
NobodysCode == << <<"REF", 99>> >>

Starts ==
    {<<TelegramId(1), <<>> >>,
     <<77, <<>> >>,
     <<77, <<StartWord>> >>,
     <<77, ReferralCode(1)>>,
     <<77, <<RefPrefix>> \o ReferralCode(1)>>,
     <<77, <<RefPrefix, RefPrefix>> \o ReferralCode(1)>>,
     <<77, NobodysCode>>,
     <<77, <<RefPrefix>> \o NewReferralCode(77)>>,
     <<88, <<RefPrefix>> \o NewReferralCode(77)>>}

InitUser ==
    /\ users = [u \in AllUserIds |->
                  IF u \notin UserIds THEN NoUser
                  ELSE Registered(u, [balance |-> 0, total_earned |-> 0,
                                      pending_earnings |-> 0, referrer_id |-> 0])]
    /\ payouts = [k \in PayoutIds |-> NoPayout]
    /\ nextPayoutId = 1
    /\ slots = [s \in SlotIds |-> FreeSlot]
    /\ consultations = [k \in ConsultationIds |-> NoConsultation]
    /\ nextConsultationId = 1
    /\ user_bonuses = [k \in UserBonusIds |-> NoUserBonus]
    /\ nextUserBonusId = 1
    /\ NoPayments
    /\ InitIdle

NextUser ==
    \E p \in Procs :
        \/ \E s \in Starts : StartCmdStart(p, s[1], s[2])
        \/ CsGetUser(p)
        \/ CuLookup(p)
        \/ CuInsert(p)
        \/ CuSettings(p)
        \/ LogInsert(p)
        \/ LogUpdate(p)
        \/ CreateNotification(p)
        \/ Return(p)

SpecUser == InitUser /\ [][NextUser]_vars

\* ------------------------------------------- send_consultation_reminders

\* The rows of SELECT c.*, ... FROM consultations c JOIN users u ... LEFT
\* JOIN user_settings us ... WHERE c.consultation_date = $1 AND c.status =
\* 'confirmed' AND c.reminder_sent = FALSE AND (us.consultation_reminders IS
\* NULL OR us.consultation_reminders = TRUE)
DueReminders(tomorrow) ==
    {c \in ConsultationIds :
        /\ consultations[c].date = tomorrow
        /\ consultations[c].status = "confirmed"
        /\ ~consultations[c].reminder_sent
        /\ \/ ~user_settings[consultations[c].user].exists
           \/ user_settings[consultations[c].user].consultation_reminders}

\* A tick of the scheduler: schedule_tasks awaits the job before it looks
\* at the clock again, so no two runs overlap.  tomorrow =
\* (datetime.now() + timedelta(days=1)).date(); the SELECT fixes the batch.
StartSendConsultationReminders(p) ==
    /\ \A q \in Procs : proc[q].op # "send_consultation_reminders"
    /\ LET due == DueReminders(today + 1)
       IN  Begin(p, [IdleProc EXCEPT
                !.op = "send_consultation_reminders",
                !.pc = IF due = {} THEN "return" ELSE "scr_send",
                !.at = today + 1, !.batch = due, !.selected = due,
                !.res = "None", !.seen = TablesSeen])
    /\ UNCHANGED <<tables, settings, sequences, rowLock, notifications,
                   activity_log, done, stored, task, today, delivered>>

\* Sending without the try/except inside the loop: the first error ends the run.
RestAfterErrorNone(batch, c) == {}

\* except Exception as e: logger.error(...), inside the for loop: the run
\* goes on with the consultations that are left.
RestAfterError(batch, c) == batch \ {c}

\* for consultation in consultations (in the order the SELECT gave, which
\* has no ORDER BY): await bot.send_message(...), which delivers the
\* reminder or raises.
ScrSend(p) ==
    LET pr == proc[p]
    IN  /\ pr.pc = "scr_send"
        /\ \E c \in pr.batch, ok \in BOOLEAN :
              IF ok
              THEN /\ delivered' = delivered (+) SetToBag({c})
                   /\ Goto(p, [pr EXCEPT !.pc = "scr_flag", !.cons = c,
                                         !.tried = Append(@, c),
                                         !.batch = @ \ {c}])
              ELSE /\ delivered' = delivered
                   /\ Goto(p, [pr EXCEPT
                            !.pc = IF RestAfterError(pr.batch, c) = {}
                                   THEN "return" ELSE "scr_send",
                            !.tried = Append(@, c), !.failed = @ \cup {c},
                            !.batch = RestAfterError(pr.batch, c)])
        /\ UNCHANGED <<tables, settings, sequences, rowLock, notifications,
                       activity_log, callNo, done, stored, task, today>>

\* The consultation left as it is after the reminder went out.
ReminderFlagUnset(row) == row

\* UPDATE consultations SET reminder_sent = TRUE WHERE id = $1
ReminderFlag(row) == [row EXCEPT !.reminder_sent = TRUE]

\* The UPDATE, outside any transaction; then log_activity(user_id,
\* 'consultation_reminder_sent', ...) and the next consultation.
ScrFlag(p) ==
    LET pr == proc[p]
    IN  /\ pr.pc = "scr_flag"
        /\ Holder(p) = "free"
        /\ consultations' = [consultations EXCEPT ![pr.cons] = ReminderFlag(@)]
        /\ Goto(p, [pr EXCEPT !.pc = "log_insert",
                              !.ltype = "consultation_reminder_sent",
                              !.luser = consultations[pr.cons].user, !.ref = pr.cons,
                              !.ret = <<IF pr.batch = {} THEN "return" ELSE "scr_send">>])
        /\ UNCHANGED <<users, payouts, slots, user_bonuses, receipts, orders,
                       order_stages, order_status_history, user_settings, bonuses,
                       settings, sequences, rowLock, notifications,
                       activity_log, callNo, done, stored, task, today, delivered>>

\* Midnight passes.
NextDay ==
    /\ today < MaxDays
    /\ today' = today + 1
    /\ UNCHANGED <<tables, settings, sequences, rowLock, notifications,
                   activity_log, proc, callNo, done, stored, task, delivered>>

\* Two consultations on day 1: that of user 1, paid or not and with
\* reminders wanted or not, and that of user 2, paid and with reminders.
InitReminder ==
    /\ users = [u \in AllUserIds |->
                  IF u \notin UserIds THEN NoUser
                  ELSE Registered(u, [balance |-> 0, total_earned |-> 0,
                                      pending_earnings |-> 0, referrer_id |-> 0])]
    /\ payouts = [k \in PayoutIds |-> NoPayout]
    /\ nextPayoutId = 1
    /\ slots = [s \in SlotIds |->
                  [exists |-> TRUE, is_available |-> FALSE, booked_by |-> s]]
    /\ \E paid \in BOOLEAN :
          consultations = [k \in ConsultationIds |->
                             IF k = 1 THEN StoredConsultation(1, 1, paid)
                             ELSE IF k = 2
                             THEN [StoredConsultation(2, 2, TRUE) EXCEPT !.number = 2]
                             ELSE NoConsultation]
    /\ nextConsultationId = 3
    /\ user_bonuses = [k \in UserBonusIds |-> NoUserBonus]
    /\ nextUserBonusId = 1
    /\ receipts = [r \in ReceiptIds |-> NoReceipt]
    /\ orders = [o \in OrderIds |-> NoOrder]
    /\ nextOrderId = 1
    /\ order_status_history = [h \in HistoryIds |-> NoHistory]
    /\ nextHistoryId = 1
    /\ order_stages = [k \in StageKeys |-> NoStage]
    /\ \E wanted \in BOOLEAN :
          user_settings = [u \in AllUserIds |->
                             IF u \notin UserIds THEN NoUserSettings
                             ELSE [DefaultUserSettings EXCEPT
                                       !.consultation_reminders = u # 1 \/ wanted]]
    /\ InitIdle

NextReminder ==
    \/ NextDay
    \/ \E p \in Procs :
        \/ StartSendConsultationReminders(p)
        \/ ScrSend(p)
        \/ ScrFlag(p)
        \/ StartConfirmConsultationPayment(p, 1, 2)
        \/ CcpUpdate(p)
        \/ CcpGetAdmin(p)
        \/ CreateNotification(p)
        \/ LogInsert(p)
        \/ LogUpdate(p)
        \/ Commit(p)
        \/ Return(p)

SpecReminder == InitReminder /\ [][NextReminder]_vars

\* ------------------------------------------------------- the connection pool

\* asyncpg.create_pool(DB_URL, min_size=1, max_size=5, ...): the pool never
\* holds more than five connections.
MaxSize == 5

\* What confirm_receipt does to the pool for a receipt of a consultation, in
\* program order.  Every Database method runs inside `async with
\* self.pool.acquire() as conn:`, so a method called from inside that block
\* takes a further connection while its caller keeps its own:
\*   confirm_receipt                       acquire          (2125)
\*     confirm_consultation_payment        acquire          (1073)
\*       get_admin_username                acquire, release (2033-2035)
\*       create_notification               acquire, release (1606-1612)
\*       log_activity                      acquire, release (2405-2415)
\*     confirm_consultation_payment        release          (1108)
\*     create_notification                 acquire, release (1606-1612)
\*     log_activity                        acquire, release (2405-2415)
\*   confirm_receipt                       release          (2190)
ConfirmReceiptChain ==
    << [op |-> "acquire", by |-> "confirm_receipt"],
       [op |-> "acquire", by |-> "confirm_consultation_payment"],
       [op |-> "acquire", by |-> "get_admin_username"],
       [op |-> "release", by |-> "get_admin_username"],
       [op |-> "acquire", by |-> "create_notification"],
       [op |-> "release", by |-> "create_notification"],
       [op |-> "acquire", by |-> "log_activity"],
       [op |-> "release", by |-> "log_activity"],
       [op |-> "release", by |-> "confirm_consultation_payment"],
       [op |-> "acquire", by |-> "create_notification"],
       [op |-> "release", by |-> "create_notification"],
       [op |-> "acquire", by |-> "log_activity"],
       [op |-> "release", by |-> "log_activity"],
       [op |-> "release", by |-> "confirm_receipt"] >>

\* The connections task t holds: those it has acquired and not released.
ConnectionsHeld(t) ==
    Cardinality({k \in 1..task[t] : ConfirmReceiptChain[k].op = "acquire"})
        - Cardinality({k \in 1..task[t] : ConfirmReceiptChain[k].op = "release"})

RECURSIVE HeldBy(_)
HeldBy(T) ==
    IF T = {} THEN 0
    ELSE LET t == CHOOSE x \in T : TRUE
         IN  ConnectionsHeld(t) + HeldBy(T \ {t})

\* The connections pool.acquire() can still hand out.
FreeConnections == MaxSize - HeldBy(PoolTasks)

\* Task t stands at a pool.acquire(): its next step takes a connection.
AwaitsConnection(t) ==
    /\ task[t] < Len(ConfirmReceiptChain)
    /\ ConfirmReceiptChain[task[t] + 1].op = "acquire"

\* `async with self.pool.acquire() as conn:` entered: the call is given a
\* connection when the pool has one, and otherwise waits (acquire is called
\* without a timeout; command_timeout bounds statements, not this wait).
PoolAcquire(t) ==
    /\ AwaitsConnection(t)
    /\ FreeConnections > 0
    /\ task' = [task EXCEPT ![t] = @ + 1]
    /\ UNCHANGED <<tables, settings, sequences, rowLock, notifications,
                   activity_log, proc, callNo, done, stored, today, delivered>>

\* The `async with` block is left: the connection goes back to the pool.
PoolRelease(t) ==
    /\ task[t] < Len(ConfirmReceiptChain)
    /\ ConfirmReceiptChain[task[t] + 1].op = "release"
    /\ task' = [task EXCEPT ![t] = @ + 1]
    /\ UNCHANGED <<tables, settings, sequences, rowLock, notifications,
                   activity_log, proc, callNo, done, stored, today, delivered>>

NextPool == \E t \in PoolTasks : PoolAcquire(t) \/ PoolRelease(t)

SpecPool == InitReceipt /\ [][NextPool]_vars

\* -------------------------------------------------------- get_order_tracker

\* completed_stages = order['completed_stages'] or 0; total_stages =
\* order['total_stages'] or 9; 'progress_percent': int((completed_stages /
\* total_stages) * 100) if total_stages > 0 else 0.  The total is the
\* order's column, not the number of stage rows.
TrackerProgress(completed, total_stages) ==
    ProgressPercent(completed, OrDefault(total_stages, DefaultTotalStages))

\* One SELECT reads the order with the count of its completed stage rows;
\* an unknown order gives {}.  The progress reported is kept in amount.
GetOrderTracker(p, o) ==
    /\ Begin(p, [IdleProc EXCEPT
             !.op = "get_order_tracker", !.pc = "return", !.id = o,
             !.res = IF orders[o].user # 0 THEN "row" ELSE "empty",
             !.amount = TrackerProgress(CompletedStages(p, o), orders[o].total_stages),
             !.seen = TablesSeen])
    /\ UNCHANGED <<tables, settings, sequences, rowLock, notifications,
                   activity_log, done, stored, task, today, delivered>>

\* Stage rows order 1 may have: the program inserts none, so whatever it has
\* was put into order_stages from outside, here no row, three rows or nine.
StoredStages == {0, 3, 9}

InitTracker ==
    /\ users = [u \in AllUserIds |->
                  IF u \notin UserIds THEN NoUser
                  ELSE Registered(u, [balance |-> 0, total_earned |-> 0,
                                      pending_earnings |-> 0, referrer_id |-> 0])]
    /\ payouts = [k \in PayoutIds |-> NoPayout]
    /\ nextPayoutId = 1
    /\ slots = [s \in SlotIds |-> FreeSlot]
    /\ consultations = [k \in ConsultationIds |-> NoConsultation]
    /\ nextConsultationId = 1
    /\ user_bonuses = [k \in UserBonusIds |-> NoUserBonus]
    /\ nextUserBonusId = 1
    /\ receipts = [r \in ReceiptIds |-> NoReceipt]
    /\ orders = [o \in OrderIds |-> IF o = 1 THEN NewOrder(1) ELSE NoOrder]
    /\ nextOrderId = 2
    /\ order_status_history = [h \in HistoryIds |-> NoHistory]
    /\ nextHistoryId = 1
    /\ \E rows \in StoredStages :
          order_stages = [k \in StageKeys |->
                            IF k[1] = 1 /\ k[2] <= rows
                            THEN [exists |-> TRUE, completed |-> FALSE]
                            ELSE NoStage]
    /\ user_settings = [u \in AllUserIds |->
                          IF u \in UserIds THEN DefaultUserSettings ELSE NoUserSettings]
    /\ InitIdle

NextTracker ==
    \E p \in Procs :
        \/ \E n \in {1, 2}, completed \in BOOLEAN :
               StartUpdateOrderStage(p, 1, n, completed)
        \/ UsgUpdateStage(p)
        \/ UsgCountCompleted(p)
        \/ UsgCountTotal(p)
        \/ UsgUpdateOrder(p)
        \/ UsgGetOrder(p)
        \/ GetOrderTracker(p, 1)
        \/ CreateNotification(p)
        \/ Commit(p)
        \/ Return(p)

SpecTracker == InitTracker /\ [][NextTracker]_vars

\* ------------------------------------------------ initialize_default_data

\* default_settings, in the order of the list, as far as the program reads
\* the keys back.
SeedKeys ==
    <<"min_payout", "referral_percentage", "referral_bonus",
      "consultation_price", "consultation_duration">>

\* on_startup: db.connect() creates the pool and the tables and then awaits
\* initialize_default_data(), before polling starts: no call is in flight.
StartInitializeDefaultData(p) ==
    /\ \A q \in Procs : ~Busy(q)
    /\ p = "p1"
    /\ nextBonusId + Cardinality(BonusIds) - 1 \in CatalogIds
    /\ proc' = [proc EXCEPT ![p] =
                   [IdleProc EXCEPT !.op = "initialize_default_data",
                                    !.pc = "idd_setting", !.count = 1,
                                    !.number = Cardinality({d \in done :
                                        d.op = "initialize_default_data"}) + 1,
                                    !.res = "error"]]
    /\ UNCHANGED <<tables, settings, sequences, rowLock, notifications,
                   activity_log, callNo, done, stored, task, today, delivered>>

\* for key, value, description in default_settings: INSERT INTO
\* system_settings ... ON CONFLICT (key) DO UPDATE SET value = EXCLUDED.value
IddSetting(p) ==
    LET pr == proc[p]
        key == SeedKeys[pr.count]
    IN  /\ pr.pc = "idd_setting"
        /\ settings' = [settings EXCEPT ![key] = DefaultSettings[key]]
        /\ IF pr.count < Len(SeedKeys)
           THEN Goto(p, [pr EXCEPT !.count = @ + 1])
           ELSE Goto(p, [pr EXCEPT !.pc = "idd_bonus", !.count = 1])
        /\ UNCHANGED <<tables, sequences, rowLock, notifications, activity_log,
                       callNo, done, stored, task, today, delivered>>

\* for bonus in bonuses_data: INSERT INTO bonuses (name, ...) VALUES (...) ON
\* CONFLICT DO NOTHING.  The table has no unique constraint but its serial
\* primary key, which the INSERT draws fresh: nothing ever conflicts.
IddBonus(p) ==
    LET pr == proc[p]
    IN  /\ pr.pc = "idd_bonus"
        /\ bonuses' = [bonuses EXCEPT ![nextBonusId] = [position |-> pr.count]]
        /\ nextBonusId' = nextBonusId + 1
        /\ IF pr.count < Cardinality(BonusIds)
           THEN Goto(p, [pr EXCEPT !.count = @ + 1])
           ELSE Goto(p, [pr EXCEPT !.pc = "return", !.res = "None"])
        /\ UNCHANGED <<users, payouts, slots, consultations, user_bonuses, receipts,
                       orders, order_stages, order_status_history, user_settings,
                       nextPayoutId, nextConsultationId, nextUserBonusId, nextOrderId,
                       nextHistoryId, nextUserId, settings, rowLock, notifications,
                       activity_log, callNo, done, stored, task, today, delivered>>

\* A database in which create_tables has just created the tables: the first
\* start of the bot.  Later starts find what the earlier ones and the admin
\* (update_system_setting, between two starts) have left.
InitSeed ==
    /\ users = [u \in AllUserIds |-> NoUser]
    /\ nextUserId = 1
    /\ payouts = [k \in PayoutIds |-> NoPayout]
    /\ nextPayoutId = 1
    /\ slots = [s \in SlotIds |-> [FreeSlot EXCEPT !.exists = FALSE]]
    /\ consultations = [k \in ConsultationIds |-> NoConsultation]
    /\ nextConsultationId = 1
    /\ user_bonuses = [k \in UserBonusIds |-> NoUserBonus]
    /\ nextUserBonusId = 1
    /\ receipts = [r \in ReceiptIds |-> NoReceipt]
    /\ orders = [o \in OrderIds |-> NoOrder]
    /\ nextOrderId = 1
    /\ order_status_history = [h \in HistoryIds |-> NoHistory]
    /\ nextHistoryId = 1
    /\ order_stages = [k \in StageKeys |-> NoStage]
    /\ user_settings = [u \in AllUserIds |-> NoUserSettings]
    /\ bonuses = [i \in CatalogIds |-> NoBonus]
    /\ nextBonusId = 1
    /\ settings = [key \in DOMAIN DefaultSettings |-> <<>>]
    /\ rowLock = [k \in LockKeys |-> "free"]
    /\ notifications = EmptyBag
    /\ activity_log = {}
    /\ proc = [p \in Procs |-> IdleProc]
    /\ callNo = 0
    /\ done = {}
    /\ today = 0
    /\ delivered = EmptyBag
    /\ task = [t \in PoolTasks |-> 0]
    /\ stored = [users |-> users, slots |-> slots, consultations |-> consultations,
                 orders |-> orders]

NextSeed ==
    \E p \in Procs :
        \/ StartInitializeDefaultData(p)
        \/ IddSetting(p)
        \/ IddBonus(p)
        \/ /\ \A q \in Procs : ~Busy(q)
           /\ done # {}
           /\ \E kv \in ReferralSettings \cup BookingSettings :
                  UpdateSystemSetting(p, kv[1], kv[2])
        \/ Return(p)

SpecSeed == InitSeed /\ [][NextSeed]_vars

\* ------------------------------------------------ claims on the payout engine

\* The returned calls of one operation, and those that ran with no other
\* call in flight.
Calls(op) == {c \in done : c.op = op}

Alone(op) == {c \in Calls(op) : ~c.conc}

\* C2: a payout request is processed at most once: of all process_payout
\* calls made for one payout, under any interleaving, at most one takes
\* effect (returns True).
C2_ProcessedAtMostOnce ==
    \A k \in PayoutIds :
        Cardinality({c \in Calls("process_payout") : c.id = k /\ c.res = "True"}) <= 1

\* C3: a user's balance is never negative, and an operation that would make
\* it negative is refused: it returns a refusal and leaves the store as it
\* was.
C3_BalanceNeverNegative ==
    /\ \A u \in UserIds : users[u].balance >= 0
    /\ \A c \in Alone("update_user_balance") \cup Alone("create_payout_request") :
           c.pre.balance + (IF c.op = "update_user_balance" THEN c.amount ELSE -c.amount) < 0
           => /\ c.res \in {"None", "False"}
              /\ c.post = c.pre

\* C4: a user's pending_earnings is never negative.
C4_PendingNeverNegative ==
    \A u \in UserIds : users[u].pending_earnings >= 0

\* C5: when update_user_balance calls are all that has run on a user who
\* started with balance 0 and total_earned 0, the balance is the sum of the
\* signed amounts and total_earned the sum of the positive ones.
C5_BalanceIsSumOfAmounts ==
    \A u \in UserIds :
        LET mine == {c \in Calls("update_user_balance") : c.user = u}
            credits == {c \in mine : c.amount > 0}
        IN  (/\ stored.users[u].balance = 0 /\ stored.users[u].total_earned = 0
             /\ \A p \in Procs : ~Busy(p)
             /\ done = mine /\ Cardinality(mine) = callNo)
            => /\ users[u].balance = SumAmounts(mine)
               /\ users[u].total_earned = SumAmounts(credits)

\* C6: create_payout_request with an amount the balance covers and the
\* minimum allows succeeds; it lowers the balance by the amount, raises
\* pending_earnings by it and records one pending payout (balance 2000,
\* amount 2000: balance 0 and pending_earnings 2000 more).
C6_RequestReservesAmount ==
    \A c \in Alone("create_payout_request") :
        (c.res = "row" \/ (c.pre.balance = 2000 /\ c.amount = 2000
                           /\ c.pre.min = DefaultMinPayoutText))
        => /\ c.res = "row"
           /\ c.post.balance = c.pre.balance - c.amount
           /\ c.post.pending = c.pre.pending + c.amount
           /\ c.post.status = "pending"

\* C7: a payout request that is created and then rejected leaves balance,
\* pending_earnings and total_earned as they were before the request, and
\* the payout rejected with the reason given.
C7_RejectRestoresRequest ==
    \A c \in Alone("create_payout_request"), r \in Alone("process_payout") :
        (/\ c.amount <= c.pre.balance /\ c.amount >= IntegerCast(c.pre.min)
         /\ r.id = c.id /\ ~r.approve /\ r.pre.nextId > c.id)
        => /\ r.post.balance = c.pre.balance
           /\ r.post.pending = c.pre.pending
           /\ r.post.earned = c.pre.earned
           /\ r.post.status = "rejected"
           /\ r.post.reason = r.reason

\* C8: an approval that takes effect lowers the owner's pending_earnings by
\* the payout's amount and leaves the balance alone, whatever the balance
\* is; a process_payout call made once the payout is completed returns False
\* and writes nothing.
C8_ApprovalIsFinal ==
    /\ \A c \in Alone("process_payout") :
           c.approve /\ c.res = "True"
           => /\ c.post.pending = c.pre.pending - c.amount
              /\ c.post.balance = c.pre.balance
              /\ c.post.status = "completed"
    /\ \A c \in Calls("process_payout") :
           c.pre.status = "completed" => c.res = "False"
    /\ \A p \in Procs :
           proc[p].op = "process_payout" /\ proc[p].pre.status = "completed"
           => proc[p].tx = <<>> /\ proc[p].pc \in {"pp_select", "return"}

\* An approval went through on a balance of 0, and a later call on the
\* completed payout has returned.
C8_ApprovedThenCalledAgain ==
    \E a \in Alone("process_payout"), c \in Calls("process_payout") :
        /\ a.approve /\ a.res = "True" /\ a.pre.balance = 0 /\ a.amount > 0
        /\ c.id = a.id /\ c.pre.status = "completed" /\ c.res = "False"

\* C9: create_payout_request succeeds exactly when the amount is at most the
\* balance and at least the min_payout the settings hold at that moment;
\* otherwise it creates nothing and changes neither balance nor
\* pending_earnings.
C9_SucceedsIffChecksPass ==
    \A c \in Alone("create_payout_request") :
        /\ c.res = "row" <=> (c.amount <= c.pre.balance
                              /\ c.amount >= IntegerCast(c.pre.min))
        /\ c.res # "row" => /\ c.post.balance = c.pre.balance
                            /\ c.post.pending = c.pre.pending

\* ------------------------------- claims on the booking and bonus engines

\* C1: of the book_consultation calls made for a slot that was available,
\* however they interleave, exactly one gets the slot: it returns the
\* consultation, the slot is marked unavailable and booked by that caller,
\* one consultation exists for the slot; every other call returns None and
\* adds nothing.  (A call that raised, its consultation number being taken,
\* has rolled back and counts as not made.)
C1_ExactlyOneBooking ==
    \A s \in SlotIds :
        LET calls == {c \in Calls("book_consultation") : c.id = s}
            won == {c \in calls : c.res = "row"}
            rows == {k \in ConsultationIds :
                        consultations[k].status # "absent" /\ consultations[k].slot = s}
            running == {p \in Procs : proc[p].op = "book_consultation" /\ proc[p].id = s}
        IN  stored.slots[s].is_available
            => /\ Cardinality(rows) <= 1
               /\ Cardinality(won) <= 1
               /\ \A c \in calls : c.res \in {"row", "None", "error"}
               /\ \A c \in won :
                      /\ ~slots[s].is_available /\ slots[s].booked_by = c.user
                      /\ \A k \in rows : consultations[k].user = c.user
                      /\ Cardinality(rows) = 1
               /\ (\E c \in calls : c.res = "None") => ~slots[s].is_available
               /\ (calls # {} /\ running = {} /\ \A c \in calls : c.res # "error")
                      => Cardinality(won) = 1

\* Two users' overlapping calls for the same slot have both returned: one
\* with the consultation, the other with None.
C1_TwoRacedForOneSlot ==
    \E w \in Calls("book_consultation"), l \in Calls("book_consultation") :
        /\ w.conc /\ l.conc /\ w.id = l.id /\ w.user # l.user
        /\ w.res = "row" /\ l.res = "None"

\* C10: a user never has more than two active bonuses, however activate_bonus
\* calls interleave.
C10_AtMostTwoActive ==
    \A u \in UserIds : ActiveCount(u) <= MaxActiveBonuses

\* C11: activate_bonus is rejected when the user holds an active or
\* pending_review activation of that bonus, and no user ever has two
\* non-terminal activations of one bonus.
C11_OneOpenActivationPerBonus ==
    /\ \A u \in UserIds, b \in BonusIds :
           Cardinality({k \in UserBonusIds :
               /\ user_bonuses[k].user = u /\ user_bonuses[k].bonus = b
               /\ user_bonuses[k].status \in {"active", "pending_review"}}) <= 1
    /\ \A c \in Calls("activate_bonus") :
           c.was \cap {"active", "pending_review"} # {} => c.res # "row"
    /\ \A c \in Alone("activate_bonus") :
           c.was \cap {"active", "pending_review"} # {} => c.res = "None"

\* A user below the cap asked for a bonus they hold in pending_review and
\* was refused.
C11_RefusedWhileOpen ==
    \E c \in Alone("activate_bonus") :
        /\ c.was = {"pending_review"} /\ c.pre.active < MaxActiveBonuses
        /\ c.res = "None"

\* C12: once a user's activation of a bonus is completed or rejected, a
\* later activate_bonus of that bonus by the user (below the cap) succeeds
\* with a new active row.
C12_ReactivationSucceeds ==
    \A c \in Alone("activate_bonus") :
        (/\ c.was # {} /\ c.was \subseteq {"completed", "rejected"}
         /\ c.pre.active < MaxActiveBonuses /\ c.amount \in BonusIds)
        => c.res = "row"

\* C13: of the approve_bonus calls on one activation at most one succeeds,
\* and an approval of an activation in pending_review succeeds and credits
\* the bonus's reward to the user's balance.
C13_RewardPaidOnce ==
    /\ \A k \in UserBonusIds :
           Cardinality({c \in Calls("approve_bonus") : c.id = k /\ c.res = "True"}) <= 1
    /\ \A c \in Alone("approve_bonus") :
           c.was = {"pending_review"}
           => c.res = "True" /\ c.post.balance = c.pre.balance + c.amount

\* C14: an activation's status moves only active -> pending_review ->
\* completed or rejected: no complete_bonus, approve_bonus or reject_bonus
\* call makes any other change, and none changes a completed or rejected
\* activation.
C14_StatusOnlyMovesForward ==
    \A c \in Alone("complete_bonus") \cup Alone("approve_bonus") \cup Alone("reject_bonus") :
        \A a \in c.was, b \in c.now :
            a # b => <<a, b>> \in {<<"active", "pending_review">>,
                                   <<"pending_review", "completed">>,
                                   <<"pending_review", "rejected">>}

\* C18: a booked slot stays as it is: no step of book_consultation,
\* add_consultation_slot or the chat's cancellation makes it available
\* again or changes its booked_by.
C18_BookedSlotIsFinal ==
    [][\A s \in SlotIds :
          (slots[s].exists /\ ~slots[s].is_available) => slots'[s] = slots[s]]_vars

\* add_consultation_slot has run for the date and time of a booked slot.
C18_AddedOverBookedSlot ==
    \E c \in Calls("add_consultation_slot") : c.was = {"booked"} /\ c.res = "True"

\* C19: consultations and booked slots correspond one to one: every
\* consultation names a booked slot and its booking user, every booked slot
\* has exactly one consultation, and a booking that raised after it had
\* flipped the slot leaves the slot as it was.
C19_ConsultationPerBookedSlot ==
    /\ \A k \in ConsultationIds :
           consultations[k].status # "absent"
           => LET s == consultations[k].slot
              IN  /\ s \in SlotIds /\ slots[s].exists /\ ~slots[s].is_available
                  /\ slots[s].booked_by = consultations[k].user
    /\ \A s \in SlotIds :
           (slots[s].exists /\ ~slots[s].is_available)
           => Cardinality({k \in ConsultationIds :
                  consultations[k].status # "absent" /\ consultations[k].slot = s}) = 1
    /\ \A c \in Alone("book_consultation") : c.res = "error" => c.now = c.was

\* A booking has raised after flipping an available slot, and a booking has
\* succeeded.
C19_OneFailedOneBooked ==
    \E c \in Alone("book_consultation"), d \in Calls("book_consultation") :
        c.res = "error" /\ c.was = {"available"} /\ d.res = "row"

\* C20: a consultation made by book_consultation has the price and the
\* duration the consultation_price and consultation_duration settings hold
\* when it is booked, whatever values they were set to.
C20_PriceAndDurationFromSettings ==
    \A c \in Alone("book_consultation") :
        c.res = "row"
        => /\ consultations[c.cons].price =
                  IntegerCast(c.pre.settings["consultation_price"])
           /\ consultations[c.cons].duration =
                  IntegerCast(c.pre.settings["consultation_duration"])

\* ----------------------------------------------- claims on the receipt engine

\* C15: a receipt is confirmed at most once.  Of the confirm_receipt calls
\* made on one receipt (that no reject_receipt has deleted) at most one
\* returns True, and once all of them have
\* returned exactly one has; the order's paid_amount has grown by the
\* receipt's amount exactly when the receipt is confirmed, a call that
\* returned True has left the receipt confirmed, and a call that returned
\* False with no other call in flight has changed no user and no order.
C15_ReceiptConfirmedOnce ==
    \A r \in ReceiptIds :
        LET calls == {c \in Calls("confirm_receipt") : c.id = r}
            won == {c \in calls : c.res = "True"}
            running == \E p \in Procs :
                           proc[p].op = "confirm_receipt" /\ proc[p].id = r
            o == receipts[r].order
        IN  receipts[r].exists =>
            /\ Cardinality(won) <= 1
            /\ calls # {} /\ ~running => Cardinality(won) = 1
            /\ won # {} => receipts[r].confirmed
            /\ o # 0 => orders[o].paid_amount =
                            stored.orders[o].paid_amount
                            + (IF receipts[r].confirmed THEN receipts[r].amount ELSE 0)
            /\ \A c \in calls :
                   c.res = "False" /\ ~c.conc =>
                       c.left.users = c.seen.users /\ c.left.orders = c.seen.orders

\* C16: a confirm_receipt call made alone on an unconfirmed receipt of an
\* order returns True and has raised the balance and total_earned of the
\* owner's referrer by referral_bonus + floor(amount * referral_percentage /
\* 100), with the settings as they were at the call; when the owner has no
\* referrer no users row has changed.
C16_ReferrerPaidFromCurrentSettings ==
    \A c \in Alone("confirm_receipt") :
        LET rc == receipts[c.id]
            owner == orders[rc.order].user
            ref == c.seen.users[owner].referrer_id
            due == TextOr(c.pre.settings["referral_bonus"], ReferralBonusFallback)
                   + PercentageBonus(rc.amount,
                         TextOr(c.pre.settings["referral_percentage"],
                                ReferralPercentageFallback))
        IN  c.was = {"unconfirmed"} /\ rc.order # 0 =>
                IF ref # 0
                THEN /\ c.res = "True"
                     /\ c.left.users[ref].balance = c.seen.users[ref].balance + due
                     /\ c.left.users[ref].total_earned =
                            c.seen.users[ref].total_earned + due
                ELSE c.left.users = c.seen.users

\* What the user of consultation k is sent when its payment is confirmed.
ConfirmationNote(k) == <<"consultation_confirmed", stored.consultations[k].user, k>>

\* A call that found the payment confirmed returned False and, made alone,
\* left the consultations and the notifications as they were; of the calls
\* on one consultation at most one returned True, and the row carries that
\* call's admin.
ReconfirmationFails ==
    /\ \A c \in Calls("confirm_consultation_payment") :
           /\ c.was = {"confirmed"} =>
                  /\ c.res = "False"
                  /\ ~c.conc => /\ c.left.consultations = c.seen.consultations
                                /\ c.left.notifications = c.seen.notifications
           /\ c.res = "True" =>
                  /\ consultations[c.id].payment_confirmed
                  /\ consultations[c.id].status = "confirmed"
                  /\ consultations[c.id].manager = c.admin
    /\ \A k \in ConsultationIds :
           Cardinality({c \in Calls("confirm_consultation_payment") :
                           c.id = k /\ c.res = "True"}) <= 1

\* No step changes the row of a consultation whose payment is confirmed, or
\* adds a confirmation notification for it.
ConfirmedStaysAsIs ==
    \A k \in ConsultationIds :
        consultations[k].payment_confirmed =>
            /\ consultations'[k] = consultations[k]
            /\ CopiesIn(ConfirmationNote(k), notifications')
                   = CopiesIn(ConfirmationNote(k), notifications)

\* C17: confirm_consultation_payment on a consultation whose payment is
\* confirmed returns False and changes nothing: payment_confirmed, status
\* and manager_id stay as the first confirmation set them, whichever admin
\* calls and also when two confirmations race, and the user gets no second
\* notification.
C17_ReconfirmationChangesNothing ==
    []ReconfirmationFails /\ [][ConfirmedStaysAsIs]_vars

\* One admin confirmed the payment; then another admin called for the same
\* consultation and was refused.
C17_AnotherAdminReconfirmed ==
    \E c, d \in Calls("confirm_consultation_payment") :
        /\ c.id = d.id /\ c.admin # d.admin
        /\ c.res = "True"
        /\ d.was = {"confirmed"} /\ d.res = "False"

\* ------------------------------------------------- claims on the order engine

\* The stage rows of order o flagged completed, in the tables a call left.
CompletedIn(t, o) ==
    Cardinality({n \in StageNumbers :
        t.order_stages[<<o, n>>].exists /\ t.order_stages[<<o, n>>].completed})

C22_ProgressFollowsStages ==
    \A c \in Alone("update_order_stage") :
        LET row == c.left.orders[c.id]
            count == CompletedIn(c.left, c.id)
        IN  c.res = "True" =>
                /\ row.progress_percent = (count * 100) \div row.total_stages
                /\ row.current_stage =
                       IF count + 1 < row.total_stages THEN count + 1
                       ELSE row.total_stages

\* C23: create_order yields an order with status new, current_stage 1,
\* progress_percent 0 and 9 stage rows, none completed; completing stage 1
\* of such an order gives current_stage 2 and progress_percent 11.
C23_FreshOrderAndFirstStage ==
    /\ \A c \in Calls("create_order") :
           c.res = "row" =>
               /\ c.left.orders[c.id] = NewOrder(c.user)
               /\ \A n \in StageNumbers :
                      /\ c.left.order_stages[<<c.id, n>>].exists
                      /\ ~c.left.order_stages[<<c.id, n>>].completed
    /\ \A d \in Alone("update_order_stage") :
           /\ d.seen.orders[d.id] = NewOrder(d.seen.orders[d.id].user)
           /\ d.number = 1 /\ d.completed
           => /\ d.left.orders[d.id].current_stage = 2
              /\ d.left.orders[d.id].progress_percent = 11

\* The changes of status the order's life allows.
StatusStep(a, b) ==
    \/ a = b
    \/ <<a, b>> \in {<<"new", "active">>, <<"active", "completed">>,
                     <<"new", "cancelled">>, <<"active", "cancelled">>}

\* C24: an order's status only follows new -> active -> completed, with
\* cancelled reached from new or active only: no step takes an order out of
\* completed or cancelled, from new to completed, or from active to new.
C24_StatusFollowsLifeCycle ==
    [][\A o \in OrderIds :
           orders[o].user # 0 => StatusStep(orders[o].status, orders'[o].status)]_vars

HistoryOf(o) == {h \in HistoryIds : order_status_history[h].order = o}

LatestOf(o) == CHOOSE h \in HistoryOf(o) : \A g \in HistoryOf(o) : g <= h

\* Every call that returned True has its own history row with its status,
\* actor and note, the table holds one row per committed call, and an order
\* carries the status of its latest history row, or, with no history, the
\* status new it was created with.
HistoryInStep ==
    /\ \A c \in Calls("update_order_status") :
           c.res = "True" =>
               /\ order_status_history[c.cons] =
                      [order |-> c.id, status |-> c.status, changed_by |-> c.admin,
                       notes |-> c.reason]
               /\ \A d \in Calls("update_order_status") :
                      d.res = "True" /\ d.cons = c.cons => d = c
    /\ Cardinality({h \in HistoryIds : order_status_history[h].order # 0})
           = Cardinality({c \in Calls("update_order_status") : c.res = "True"})
             + Cardinality({p \in Procs :
                   /\ proc[p].op = "update_order_status"
                   /\ proc[p].pc = "return" /\ proc[p].res = "True"})
    /\ \A o \in OrderIds :
           orders[o].user # 0 =>
               orders[o].status =
                   IF HistoryOf(o) # {} THEN order_status_history[LatestOf(o)].status
                   ELSE "new"

\* No step changes or removes a history row.
HistoryKept ==
    \A h \in HistoryIds :
        order_status_history[h].order # 0 =>
            order_status_history'[h] = order_status_history[h]

\* C25: the status history is append-only and in step with the order: each
\* successful update_order_status appends exactly one row with the new
\* status, actor and note in the transaction of the order's update, rows
\* are never changed or removed, and once a status was changed the order's
\* status is that of its latest history row.
C25_HistoryAppendOnlyInStep ==
    []HistoryInStep /\ [][HistoryKept]_vars

\* Two overlapping calls changed the status of one order to different
\* values; both returned True.
C25_TwoChangesRaced ==
    \E c, d \in Calls("update_order_status") :
        /\ c.id = d.id /\ c.cons < d.cons /\ c.status # d.status
        /\ c.conc /\ d.conc
        /\ c.res = "True" /\ d.res = "True"

\* C26: completed_at is stamped only by a transition into completed: it is
\* unset while the order has never been completed, and no step changes it
\* unless it takes the order from another status to completed.
C26_StampedOnCompletionOnly ==
    [][\A o \in OrderIds :
           orders'[o].completed_at # orders[o].completed_at =>
               orders[o].status # "completed" /\ orders'[o].status = "completed"]_vars

\* ------------------------------------------- claims on failure and retrying

\* C27: a multi-step operation that fails partway leaves no partial state.
\* An approve_bonus or create_payout_request call that did not succeed has
\* left the user's row and the activity log as they were; an approve_bonus
\* that succeeded for a positive reward has credited it; and, with no
\* request in flight, every new_payout notification and every
\* payout_requested log entry names a payout that exists.
C27_FailureLeavesNothing ==
    /\ \A c \in Alone("approve_bonus") \cup Alone("create_payout_request") :
           c.res \notin {"True", "row"} =>
               /\ c.post.balance = c.pre.balance
               /\ c.post.pending = c.pre.pending
               /\ c.post.logged = c.pre.logged
    /\ \A c \in Alone("approve_bonus") :
           c.res = "True" /\ Reward(user_bonuses[c.id].bonus) > 0 =>
               c.post.balance = c.pre.balance + Reward(user_bonuses[c.id].bonus)
    /\ (\A p \in Procs : proc[p].op # "create_payout_request") =>
           /\ \A n \in BagToSet(notifications) :
                  n[1] = "new_payout" =>
                      n[3] \in PayoutIds /\ payouts[n[3]].status # "absent"
           /\ \A l \in activity_log :
                  l[1] = "payout_requested" =>
                      l[3] \in PayoutIds /\ payouts[l[3]].status # "absent"

\* C28: confirm_receipt is safely retryable.  When a call on an order's
\* receipt has failed and the caller tries again on what the failed call
\* left, the retry returns True, the order's paid_amount is the receipt's
\* amount higher than before the first attempt, and the referrer has been
\* paid the flat bonus and the percentage once over both attempts.
C28_RetryPaysOnce ==
    \A c, d \in Alone("confirm_receipt") :
        LET rc == receipts[c.id]
            owner == orders[rc.order].user
            ref == c.seen.users[owner].referrer_id
            due == TextOr(c.pre.settings["referral_bonus"], ReferralBonusFallback)
                   + PercentageBonus(rc.amount,
                         TextOr(c.pre.settings["referral_percentage"],
                                ReferralPercentageFallback))
        IN  /\ c.id = d.id /\ rc.order # 0
            /\ c.res = "error" /\ c.was = {"unconfirmed"}
            /\ d.pre.logged >= c.post.logged /\ d.seen = c.left
            => /\ d.res = "True"
               /\ d.left.orders[rc.order].paid_amount =
                      c.seen.orders[rc.order].paid_amount + rc.amount
               /\ ref # 0 => d.left.users[ref].balance = c.seen.users[ref].balance + due

\* What the argument of /start names once the ref_ prefix of the referral
\* link, if it carries one, is taken off.
StripPrefix(code) ==
    IF code # <<>> /\ Head(code) = RefPrefix THEN Tail(code) ELSE code

\* The text ref_ occurs in the argument as its prefix or not at all.
PlainCode(code) ==
    \A i \in 1..Len(StripPrefix(code)) : StripPrefix(code)[i] # RefPrefix

\* The users, among those of table us, whose referral code the argument names.
Resolved(code, us) ==
    {u \in AllUserIds :
        us[u].telegram_id # 0 /\ us[u].referral_code = StripPrefix(code)}

\* The new_referral notifications about new user n addressed to user x.
ReferralNotes(x, n) == CopiesIn(<<"new_referral", x, n>>, notifications)

\* C29: registration through /start never fails because of the referral
\* code: a registration fails only when the same account registers in a
\* concurrent call, whatever its argument; a registration that returns has
\* created the user, with no referrer and no new_referral notification when
\* the argument is absent or names no user, and with the named user as
\* referrer and exactly one new_referral notification, addressed to that
\* user, when the argument (with or without the ref_ prefix) names a user;
\* the referrer is never the new user.
C29_ReferralCodeNeverFailsRegistration ==
    \A d \in done :
        d.op = "cmd_start" =>
            /\ d.res \in {"known", "row", "unique_violation"}
            /\ d.res = "unique_violation" => d.conc
            /\ d.res = "row" =>
                  LET row == users[d.id]
                      named == Resolved(d.code, d.seen.users)
                  IN  /\ row.telegram_id = d.tg
                      /\ user_settings[d.id].exists
                      /\ row.referrer_id # d.id
                      /\ \A x \in AllUserIds \cup {0} :
                            ReferralNotes(x, d.id) =
                                IF x # 0 /\ x = row.referrer_id THEN 1 ELSE 0
                      /\ PlainCode(d.code) =>
                            /\ named = {} => row.referrer_id = 0
                            /\ \A r \in named : row.referrer_id = r

\* A registration through the referral link of user 1 returned: the new
\* user has referrer 1 and user 1 has one notification about it.
C29_RegisteredThroughLink ==
    \E d \in done :
        /\ d.op = "cmd_start" /\ d.res = "row"
        /\ d.code = <<RefPrefix>> \o ReferralCode(1)
        /\ users[d.id].referrer_id = 1
        /\ ReferralNotes(1, d.id) = 1

\* The runs of initialize_default_data that have returned.
SeedingRuns == {d \in done : d.op = "initialize_default_data"}

\* The catalog rows that hold default bonus k.
CatalogRows(k) == {i \in CatalogIds : bonuses[i].position = k}

\* C30: seeding is idempotent: whenever initialize_default_data has run to
\* its end once or more and is not running, the catalog holds exactly the
\* four default bonuses, each in one row, and every run has left the
\* settings it writes at their default values.
C30_SeedingIsIdempotent ==
    (SeedingRuns # {} /\ \A p \in Procs : proc[p].op # "initialize_default_data") =>
        /\ \A k \in BonusIds : Cardinality(CatalogRows(k)) = 1
        /\ Cardinality({i \in CatalogIds : bonuses[i] # NoBonus}) = Cardinality(BonusIds)
        /\ \A d \in SeedingRuns : d.post.settings = DefaultSettings

\* C39: a setting that holds a value keeps it across a restart: no step of
\* initialize_default_data changes the value of a key that has one.
C39_RestartKeepsSettings ==
    [][\A key \in DOMAIN settings :
          (settings[key] # <<>> /\ \E p \in Procs : proc[p].pc = "idd_setting")
              => settings'[key] = settings[key]]_vars

\* C33: update_system_setting persists the value and returns success (after
\* dropping the cached statistics): every call that has returned returned
\* True.
C33_SettingUpdateReturnsTrue ==
    \A d \in done : d.op = "update_system_setting" => d.res = "True"

\* The payouts of user u that have the given status, each with its amount.
PayoutsOf(u, status) ==
    {[id |-> k, amount |-> payouts[k].amount] :
        k \in {j \in PayoutIds : payouts[j].user = u /\ payouts[j].status = status}}

\* C34: for every user, pending_earnings is the sum of the amounts of the
\* user's pending payouts, and balance + pending_earnings + the amounts of
\* the user's completed payouts is what the user had when the pool
\* connected (no payout was completed then) plus the signed amounts of the
\* update_user_balance calls that returned True.
C34_ReservationsMatchPayouts ==
    \A u \in UserIds :
        /\ users[u].pending_earnings = SumAmounts(PayoutsOf(u, "pending"))
        /\ users[u].balance + users[u].pending_earnings
               + SumAmounts(PayoutsOf(u, "completed"))
           = stored.users[u].balance + stored.users[u].pending_earnings
               + SumAmounts({c \in Calls("update_user_balance") :
                                c.user = u /\ c.res = "True"})

\* C35: no call ever waits for a row lock that its own open transaction
\* holds: update_user_balance, create_payout_request and process_payout by
\* the payout's owner get past log_activity and commit.
C35_NeverWaitsForOwnLock ==
    \A p \in Procs : ~Stuck(p)

\* The confirmed receipts that exist for order o, each with its amount.
ConfirmedReceipts(o) ==
    {[id |-> r, amount |-> receipts[r].amount] :
        r \in {k \in ReceiptIds : /\ receipts[k].exists /\ receipts[k].confirmed
                                   /\ receipts[k].order = o}}

\* C37: every order's paid_amount is the sum of the amounts of the confirmed
\* receipts that exist for it.
C37_PaidIsSumOfConfirmedReceipts ==
    \A o \in OrderIds :
        orders[o].user # 0 => orders[o].paid_amount = SumAmounts(ConfirmedReceipts(o))

RemindedOnceAndFlagged ==
    \A c \in ConsultationIds :
        /\ CopiesIn(c, delivered) <= 1
        /\ CopiesIn(c, delivered) = 1 =>
               \/ consultations[c].reminder_sent
               \/ \E p \in Procs : proc[p].pc = "scr_flag" /\ proc[p].cons = c

\* A step that delivers a reminder delivers it for a consultation that is
\* confirmed, not flagged, dated the day after the tick, and whose owner
\* has consultation_reminders true or no settings row.
RemindedWhenDue ==
    \A c \in ConsultationIds :
        CopiesIn(c, delivered') > CopiesIn(c, delivered) =>
            /\ consultations[c].status = "confirmed"
            /\ ~consultations[c].reminder_sent
            /\ \E p \in Procs : /\ proc[p].op = "send_consultation_reminders"
                                 /\ consultations[c].date = proc[p].at
            /\ \/ ~user_settings[consultations[c].user].exists
               \/ user_settings[consultations[c].user].consultation_reminders

\* C31: over any number of ticks of send_consultation_reminders every
\* consultation gets at most one delivered reminder; a reminder goes out
\* only for a consultation that is confirmed, not yet flagged, dated one
\* day ahead and whose owner wants reminders (or has no preference); once
\* it has gone out the consultation is flagged reminder_sent.
C31_OneReminderPerConsultation ==
    []RemindedOnceAndFlagged /\ [][RemindedWhenDue]_vars

\* Two ticks for the same day have returned, and a consultation reminded by
\* the first was left out by the second: it has exactly one reminder.
C31_SecondTickSentNothingNew ==
    \E d, e \in Calls("send_consultation_reminders") :
        /\ d.at = e.at /\ e.seen = d.left
        /\ \E c \in d.selected \ d.failed :
               c \notin e.selected /\ CopiesIn(c, delivered) = 1

C36_PoolNeverHeldByWaiters ==
    ~ /\ FreeConnections = 0
      /\ \A t \in PoolTasks : ConnectionsHeld(t) > 0 => AwaitsConnection(t)

====
